---------------------------- MODULE Spec2Model ----------------------------
(***************************************************************************)
(* A model of the mcp-server-synth repository: the audio buffer engine     *)
(* (mixBuffers, mixAudio), the sample-based render pipelines               *)
(* (generateSampledTrackFile, generateLayeredTrackFile), the MIDI/ambient  *)
(* tool handler (play_ambient_retrowave_song) and the chord resolver       *)
(* (getChords and its variants).                                           *)
(*                                                                         *)
(* Samples are fixed-point: a sample is an integer number of 1/Unit steps  *)
(* (Unit steps = amplitude 1.0).  A buffer that went through the           *)
(* normalisation pass is a record [samples, den]: sample i has the value   *)
(* samples[i] / den, so a division by the peak is exact.  Float32 rounding *)
(* is not modelled.                                                        *)
(***************************************************************************)
EXTENDS Integers, Sequences, FiniteSets, TLC

VARIABLES
    \* --- audio buffer engine (one call of mixBuffers or mixAudio) ---
    mixOp,        \* "mixBuffers" | "mixAudio": the function being called
    mixBuffersIn, \* the buffers argument (mixAudio: <<musicBuffer, natureBuffer>>)
    mixOffsetsIn, \* the offsets argument (mixAudio: unused, <<>>)
    mixVolume,    \* mixAudio's natureVolume as <<numerator, denominator>>
    mixPc,        \* "call" before the call, "returned" | "threw" after it
    mixRaw,       \* the accumulator before the normalisation pass
    mixResult,    \* the returned buffer [samples, den]
    \* --- one invocation of a sample-based render tool ---
    rVariant,     \* "sampled" | "layered2" | "layered3": which server file
    rListing,     \* role -> number of .wav files its folder lists
    rFiles,       \* the fragment paths that exist when the loop checks them
    rDraw,        \* what Math.random() returns during the render, in percent
    rPc,          \* position of the handler
    rEvents,      \* the events the loop iterates, in iteration order
    rIdx,         \* index of the event the loop is at
    rPending,     \* events whose load has started and not completed
    rSkipped,     \* events skipped with a warning
    rLoaded,      \* events whose buffer was appended, in append order
    rBuffers,     \* the buffers list
    rOffsets,     \* the offsets list
    rMixCalls,    \* number of mixBuffers invocations
    rStages,      \* transformations applied to the mixed signal, in order
    rEncoded,     \* TRUE once the mixed signal was encoded
    rWritten,     \* TRUE once the output file was written
    rPlayers,     \* number of player processes spawned
    rResponse,    \* "none" | "success" | "failure": the handler's return
    \* --- one invocation of play_ambient_retrowave_song ---
    aSamples,     \* the nature samples present in ../samples
    aPc,          \* position of the handler
    aMidiWritten, \* TRUE once generateSongMIDI wrote the .mid file
    aTimidityCode,\* exit code timidity closed with (-1: null, killed by a signal)
    aSynthWav,    \* TRUE when timidity left the synth .wav file
    aNatureSound, \* the nature sample randomChoice selected
    aSynthAudio,  \* channelData[0] of the decoded synth .wav
    aNatureAudio, \* channelData[0] of the decoded nature sample
    aFinalBuffer, \* what mixAudio returned
    aStages,      \* transformations applied to the mixed signal, in order
    aEncoded,     \* TRUE once the final mix was encoded
    aFinalWritten,\* TRUE once the final mixed .wav file was written
    aPlayers,     \* number of player processes spawned
    aError,       \* the message of the error thrown, "" when none
    aResponse,    \* "none" | "success" | "failure": the handler's return
    \* --- one call of the chord resolver ---
    cVariant,     \* which variant of the resolver is called
    cProgression, \* the progression argument: a sequence of degree symbols
    cScale,       \* the scale argument: 7 pitch-class names
    cOctave,      \* the octave argument
    cPc,          \* "idle" | "call" | "returned"
    cChords,      \* the returned sequence of chords
    \* --- one choice of the verse and chorus progressions ---
    pVariant,     \* which generateSongMIDI makes the choice
    pTone,        \* the tone argument
    pDraws,       \* what Math.random() returns for the two randomChoice calls
    pPc,          \* "idle" | "call" | "chosen"
    pVerse,       \* name of the verse progression
    pChorus,      \* name of the chorus progression
    \* --- one call of generateDrumTrack ---
    dVariant,     \* which generateDrumTrack is called
    dStructure,   \* the structure argument
    dDraw,        \* what Math.random() returns during the call
    dPc,          \* "idle" | "call" | "returned"
    dTrack,       \* the pattern invocations of the returned track, in order
    \* --- one composition of the tracks of a song ---
    tVariant,     \* which composer runs
    tDraws,       \* what Math.random() returns: <<structure, patterns>>
    tPc,          \* "idle" | "start" | "structured" | "composed"
    tStructure,   \* the structure generateSongStructure returned
    tTracks,      \* the tracks composed, in the order they are pushed
    \* --- one call of loadSample ---
    lsExists,     \* TRUE when the file is there
    lsIn,         \* channelData[0] of the decoded file
    lsRate,       \* audioData.sampleRate
    lsTargetRate, \* the targetSampleRate argument
    lsPc,         \* "idle" | "call" | "returned" | "threw"
    lsReads,      \* the indices of channelData read, in order
    lsOut,        \* the resampled buffer returned
    \* --- calls of the buffer transforms ---
    fxHeap,       \* the Float32Arrays allocated so far; an address is an index
    fxHeap0,      \* the arrays as they were before the first call
    fxPc,         \* "idle" | "start" | "once" | "twice": calls made so far
    fxCalls,      \* one record per call made: op, args, param, ret, out, reads
    \* --- two runs of generateSongMIDI, one after the other ---
    gStream,      \* per run, the values Math.random() returns, repeated in turn
    gClock,       \* per run, what Date.now() returns
    gRun,         \* the run in progress, 3 when both have returned
    gPc,          \* the statement the run in progress is at
    gSong,        \* per run, what it has chosen and built so far
    \* --- playWav with a tracked player (src/unnamed/part_007) ---
    wVariant,     \* "handle" (459-476) | "pid" (991-1038)
    wPlayers,     \* the players spawned so far: "alive" | "dead" | "gone"
    wCurrent,     \* currentPlayer / currentPlayerPid: a player's number, 0 for null
    wStops,       \* the PIDs of the kill commands whose callback is awaited
    \* --- one invocation of play_retro_music (src/unnamed/part_001, part_004) ---
    qVariant,     \* "part_001" | "part_004"
    qTone,        \* the tone argument
    qFaults,      \* the steps that throw in this invocation
    qPc,          \* the statement the invocation is at
    qNotes,       \* baseNotes
    qWritten,     \* TRUE once the .wav file is written
    qPlayers,     \* per player spawned: the statement that spawned it
    qResponse,    \* "none" | "success" | "failure"
    \* --- synthesize_music and play_music (src/unnamed/part_002, part_007) ---
    uVariant,     \* "part_002" (63-109) | "part_007" (66-122)
    uLastTrack,   \* lastTrack: the name of a file
    uFiles,       \* per file name, the synthesis that wrote it, 0 when absent
    uSynths,      \* per synthesize_music invocation: its tone and where it is
    uLastDone,    \* the synthesis that completed last, 0 when none has
    uPlays        \* per play_music invocation: what it found and did

mixVars == <<mixOp, mixBuffersIn, mixOffsetsIn, mixVolume, mixPc, mixRaw, mixResult>>

renderVars == <<rVariant, rListing, rFiles, rDraw, rPc, rEvents, rIdx,
                rPending, rSkipped, rLoaded, rBuffers, rOffsets, rMixCalls,
                rStages, rEncoded, rWritten, rPlayers, rResponse>>

ambientVars == <<aSamples, aPc, aMidiWritten, aTimidityCode, aSynthWav,
                 aNatureSound, aSynthAudio, aNatureAudio, aFinalBuffer, aStages,
                 aEncoded, aFinalWritten, aPlayers, aError, aResponse>>

chordVars == <<cVariant, cProgression, cScale, cOctave, cPc, cChords>>

progVars == <<pVariant, pTone, pDraws, pPc, pVerse, pChorus>>

drumVars == <<dVariant, dStructure, dDraw, dPc, dTrack>>

composeVars == <<tVariant, tDraws, tPc, tStructure, tTracks>>

loadVars == <<lsExists, lsIn, lsRate, lsTargetRate, lsPc, lsReads, lsOut>>

fxVars == <<fxHeap, fxHeap0, fxPc, fxCalls>>

songVars == <<gStream, gClock, gRun, gPc, gSong>>

playVars == <<wVariant, wPlayers, wCurrent, wStops>>

retroVars == <<qVariant, qTone, qFaults, qPc, qNotes, qWritten, qPlayers, qResponse>>

toolVars == <<uVariant, uLastTrack, uFiles, uSynths, uLastDone, uPlays>>

vars == <<mixVars, renderVars, ambientVars, chordVars, progVars, drumVars, composeVars, loadVars, fxVars, songVars, playVars, retroVars, toolVars>>

--------------------------------------------------------------------------
(* Bounds of the model *)

Unit == 2          \* fixed-point steps per amplitude 1.0
MaxLen == 2        \* longest input buffer
MaxBuffers == 2    \* longest list of buffers handed to mixBuffers
MaxOffset == 2     \* largest offset handed to mixBuffers
MaxUnits == 1      \* repetition units kept of a section or of a repeat count
FragmentsPerRole == 2  \* .wav files in a role folder that is not empty
MaxVanished == 1   \* listed fragments that vanish before the loop checks them
MaxOctave == 5     \* highest octave handed to the chord resolver
MaxSamples == 4    \* longest decoded file handed to loadSample
MaxRate == 4       \* highest sample rate, of a file or asked for
MaxFx == 4         \* longest buffer handed to a buffer transform
MaxDelay == 2      \* largest delaySamples handed to addDelay
MaxPlayers == 4    \* calls of playWav the server gets
MaxSynths == 3     \* invocations of synthesize_music
MaxPlays == 2      \* invocations of play_music

--------------------------------------------------------------------------
(* Helpers *)

Abs(x) == IF x < 0 THEN -x ELSE x

Max2(a, b) == IF a >= b THEN a ELSE b

SeqsUpTo(S, n) == UNION {[1..k -> S] : k \in 0..n}

\* Sample values: full scale of both signs and the smallest step.
SampleVals == {-Unit, 1, Unit}

BufferSet == SeqsUpTo(SampleVals, MaxLen)

\* The value of a buffer variable before anything was returned.
NoBuffer == [samples |-> <<>>, den |-> 1]

\* The buffers of a list handed to mixBuffers: negative full scale (two of
\* them overflow, and only Math.abs sees it) and the smallest step.
MixBufferSet == SeqsUpTo({-Unit, 1}, MaxLen)

--------------------------------------------------------------------------
(* mixBuffers: src/src/index_09232025_2.ts 97-119 (same text in            *)
(* index_09232025_3.ts 82-104 and build/index.js 34-53)                    *)

\* Math.max(...buffers.map((b, i) => b.length + offsets[i])); Math.max() of
\* no arguments is -Infinity, modelled as -1 (any negative length makes
\* new Float32Array throw a RangeError).
RECURSIVE MixLengthFrom(_, _, _)
MixLengthFrom(buffers, offsets, i) ==
    IF i > Len(buffers) THEN -1
    ELSE Max2(Len(buffers[i]) + offsets[i], MixLengthFrom(buffers, offsets, i + 1))

MixLengthNoOffsets(buffers, offsets) ==
    MixLengthFrom(buffers, [i \in 1..Len(buffers) |-> 0], 1)

MixLength(buffers, offsets) == MixLengthFrom(buffers, offsets, 1)

\* buffers.forEach((buf, i) => { for j: track[offset + j] += buf[j] }).
\* Position k (1-based) of the track is the 0-based index k - 1; a write at an
\* index outside a typed array is dropped by the language.
RECURSIVE Accumulate(_, _, _, _)
Accumulate(track, buffers, offsets, i) ==
    IF i > Len(buffers) THEN track
    ELSE LET buf == buffers[i]
             offset == offsets[i]
             next == [k \in 1..Len(track) |->
                        IF offset < k /\ k <= offset + Len(buf)
                        THEN track[k] + buf[k - offset]
                        ELSE track[k]]
         IN  Accumulate(next, buffers, offsets, i + 1)

\* The indices (0-based) the accumulation loop writes to: offset + j for
\* j = 0 .. buf.length - 1.
WriteIndices(buffers, offsets) ==
    UNION {{offsets[i] + j : j \in 0..(Len(buffers[i]) - 1)} : i \in 1..Len(buffers)}

\* let max = 0; for (...) if (Math.abs(track[i]) > max) max = absVal
RECURSIVE PeakFrom(_, _)
PeakFrom(track, i) ==
    IF i > Len(track) THEN 0
    ELSE Max2(Abs(track[i]), PeakFrom(track, i + 1))

Peak(track) == PeakFrom(track, 1)

\* if (max > 1) for (...) track[i] /= max.  one is amplitude 1.0 in the
\* track's steps; the result's values are samples[i] / den.
NormalizeNever(track, one) == [samples |-> track, den |-> one]

NormalizeAlways(track, one) ==
    [samples |-> track, den |-> IF Peak(track) > 0 THEN Peak(track) ELSE one]

Normalize(track, one) ==
    IF Peak(track) > one
    THEN [samples |-> track, den |-> Peak(track)]
    ELSE [samples |-> track, den |-> one]

\* The accumulator before normalisation; defined when the allocation
\* succeeds (MixLength >= 0).
MixAccumulator(buffers, offsets) ==
    Accumulate([k \in 1..MixLength(buffers, offsets) |-> 0], buffers, offsets, 1)

mixBuffersThrows(buffers, offsets) == MixLength(buffers, offsets) < 0

mixBuffers(buffers, offsets) == Normalize(MixAccumulator(buffers, offsets), Unit)

--------------------------------------------------------------------------
(* mixAudio: src/src/index.ts 73-95 *)

\* natureVolume values the handlers pass: 0.4 (index.ts 260), 0.9 and 1.0
\* (unnamed/part_007 1069-1071).
Volumes == {<<2, 5>>, <<9, 10>>, <<1, 1>>}

\* A mix that plays the nature buffer once, silence after its end.
MixAudioAccumulatorOnce(musicBuffer, natureBuffer, natureVolume) ==
    [k \in 1..Len(musicBuffer) |->
        musicBuffer[k] * natureVolume[2]
        + (IF k <= Len(natureBuffer) THEN natureBuffer[k] * natureVolume[1] ELSE 0)]

\* mixed[i] = musicBuffer[i] + natureBuffer[i % natureLength] * natureVolume,
\* in steps of 1 / (Unit * volume denominator).
MixAudioAccumulator(musicBuffer, natureBuffer, natureVolume) ==
    [k \in 1..Len(musicBuffer) |->
        musicBuffer[k] * natureVolume[2]
        + natureBuffer[((k - 1) % Len(natureBuffer)) + 1] * natureVolume[1]]

mixAudio(musicBuffer, natureBuffer, natureVolume) ==
    Normalize(MixAudioAccumulator(musicBuffer, natureBuffer, natureVolume),
              Unit * natureVolume[2])

--------------------------------------------------------------------------
(* Sample-based composition.  Event times are in hundredths of a           *)
(* repetition unit; a fragment path is <<folder or file name, index>>.     *)

Min2(a, b) == IF a <= b THEN a ELSE b

Roles == {"kick", "snare", "hihat", "bass", "chord"}

\* What Math.random() returns during one render, in percent: one value
\* between each two neighbouring thresholds the code compares it with.
Draws == {10, 20, 35, 45, 55, 62, 68, 75}

\* Math.floor(Math.random() * n)
RandomIndex(u, n) == (u * n) \div 100

\* A repeat count or a section length, cut to MaxUnits repetition units.
Units(n) == Min2(n, MaxUnits)

RECURSIVE Flatten(_)
Flatten(ss) == IF ss = <<>> THEN <<>> ELSE Head(ss) \o Flatten(Tail(ss))

SeqRange(seq) == {seq[i] : i \in 1..Len(seq)}

Event(path, t) == [samplePath |-> path, time |-> t]

Section(n, l) == [name |-> n, length |-> l]

\* src/src/index_09232025_3.ts 106-112: [] for a missing folder, else its
\* .wav files joined to the folder name.
getSamplesFromFolder(listing, folderName) ==
    [k \in 1..listing[folderName] |-> <<folderName, k>>]

\* allSamples.kicks[Math.floor(Math.random() * allSamples.kicks.length)]
Pick(u, samples) == samples[RandomIndex(u, Len(samples)) + 1]

\* src/src/index_09232025_3.ts 142-148
allSamples(listing) ==
    [kicks  |-> getSamplesFromFolder(listing, "kick"),
     snares |-> getSamplesFromFolder(listing, "snare"),
     hihats |-> getSamplesFromFolder(listing, "hihat"),
     basses |-> getSamplesFromFolder(listing, "bass"),
     chords |-> getSamplesFromFolder(listing, "chord")]

\* src/src/index_09232025_3.ts 131-138
Templates3 ==
    << <<Section("intro", 4), Section("verse", 8), Section("chorus", 8), Section("outro", 4)>>,
       <<Section("verse", 8), Section("chorus", 8), Section("bridge", 4), Section("chorus", 8)>>,
       <<Section("intro", 2), Section("build", 4), Section("drop", 8), Section("outro", 2)>> >>

generateSongStructure3(u) == Templates3[RandomIndex(u, Len(Templates3)) + 1]

\* The values r takes in `for (r = 0; r < repeats; r += step)`.
LoopValues(repeats, step) ==
    [i \in 1..((repeats + step - 1) \div step) |-> (i - 1) * step]

\* r += Math.floor(2 + Math.random() * 2)
ChordStep(u) == 2 + ((2 * u) \div 100)

\* src/src/index_09232025_3.ts 158-176: the drum events of one unit.
DrumUnit3(all, u, offset) ==
    (IF Len(all.kicks) > 0
        THEN <<Event(Pick(u, all.kicks), offset)>> ELSE <<>>)
    \o (IF Len(all.snares) > 0
        THEN <<Event(Pick(u, all.snares), offset + 50)>> ELSE <<>>)
    \o (IF Len(all.hihats) > 0 /\ u > 50
        THEN [i \in 1..3 |-> Event(Pick(u, all.hihats), offset + 25 * i)]
        ELSE <<>>)

\* src/src/index_09232025_3.ts 153-203: the tracks of sections k.. of the
\* structure; a track name `drums_${section.name}` is <<"drums", name>>.
RECURSIVE SectionTracks3(_, _, _, _, _)
SectionTracks3(structure, k, globalOffset, all, u) ==
    IF k > Len(structure) THEN <<>>
    ELSE
      LET section == structure[k]
          repeats == Units(section.length)
          rs == LoopValues(repeats, 1)
          cs == LoopValues(repeats, ChordStep(u))
          drums ==
            IF Len(all.kicks) > 0 \/ Len(all.snares) > 0
            THEN <<[name |-> <<"drums", section.name>>,
                    events |-> Flatten([i \in 1..Len(rs) |->
                        DrumUnit3(all, u, (globalOffset + rs[i]) * 100)])]>>
            ELSE <<>>
          bass ==
            IF Len(all.basses) > 0
            THEN <<[name |-> <<"bass", section.name>>,
                    events |-> [i \in 1..Len(rs) |->
                        Event(Pick(u, all.basses), (globalOffset + rs[i]) * 100)]]>>
            ELSE <<>>
          chords ==
            IF Len(all.chords) > 0
            THEN <<[name |-> <<"chords", section.name>>,
                    events |-> [i \in 1..Len(cs) |->
                        Event(Pick(u, all.chords), (globalOffset + cs[i]) * 100)]]>>
            ELSE <<>>
      IN  drums \o bass \o chords
          \o SectionTracks3(structure, k + 1, globalOffset + repeats, all, u)

\* src/src/index_09232025_3.ts 141-206
getComposition3(structure, listing, u) ==
    SectionTracks3(structure, 1, 0, allSamples(listing), u)

\* src/src/index_09232025_2.ts 156-184: the drum events of one unit (swing
\* is 0.05).
DrumUnit2(all, u, offset) ==
    (IF Len(all.kicks) > 0
        THEN <<Event(Pick(u, all.kicks), offset)>>
             \o (IF u > 70 THEN <<Event(Pick(u, all.kicks), offset + 25)>> ELSE <<>>)
        ELSE <<>>)
    \o (IF Len(all.snares) > 0
        THEN <<Event(Pick(u, all.snares), offset + 50 + (IF u > 50 THEN 5 ELSE 0))>>
        ELSE <<>>)
    \o (IF Len(all.hihats) > 0 /\ u > 40
        THEN [i \in 1..3 |->
                Event(Pick(u, all.hihats),
                      offset + 25 * i + (IF i \in {1, 3} THEN 5 ELSE 0))]
        ELSE <<>>)

\* src/src/index_09232025_2.ts 141-217
getComposition2(listing, u, repeats) ==
    LET all == allSamples(listing)
        rs == LoopValues(repeats, 1)
        cs == LoopValues(repeats, ChordStep(u))
        drums ==
          IF Len(all.kicks) > 0 \/ Len(all.snares) > 0
          THEN <<[name |-> "drums",
                  events |-> Flatten([i \in 1..Len(rs) |->
                                DrumUnit2(all, u, rs[i] * 100)])]>>
          ELSE <<>>
        bass ==
          IF Len(all.basses) > 0
          THEN <<[name |-> "bass",
                  events |-> Flatten([i \in 1..Len(rs) |->
                      <<Event(Pick(u, all.basses), rs[i] * 100)>>
                      \o (IF u > 60
                          THEN <<Event(Pick(u, all.basses), rs[i] * 100 + 50)>>
                          ELSE <<>>)])]>>
          ELSE <<>>
        chords ==
          IF Len(all.chords) > 0
          THEN <<[name |-> "chords",
                  events |-> Flatten([i \in 1..Len(cs) |->
                      <<Event(Pick(u, all.chords), cs[i] * 100)>>
                      \o (IF u > 70
                          THEN <<Event(Pick(u, all.chords), cs[i] * 100 + 50)>>
                          ELSE <<>>)])]>>
          ELSE <<>>
    IN  drums \o bass \o chords

\* src/build/index.js 55-80: the hard-coded sample names.
SampledFiles ==
    {<<"kick.wav", 0>>, <<"snare.wav", 0>>, <<"bass_note_C2.wav", 0>>,
     <<"synth_chord_Cmaj.wav", 0>>}

getSampleSequence(repeats) ==
    Flatten([i \in 1..repeats |->
        <<Event(<<"kick.wav", 0>>, (i - 1) * 100),
          Event(<<"snare.wav", 0>>, 50 + (i - 1) * 100),
          Event(<<"bass_note_C2.wav", 0>>, (i - 1) * 100),
          Event(<<"bass_note_C2.wav", 0>>, 50 + (i - 1) * 100)>>])
    \o [i \in 1..repeats |-> Event(<<"synth_chord_Cmaj.wav", 0>>, (i - 1) * 50)]

\* `for (const track of tracks) for (const event of track.events)`
TrackEvents(tracks) == Flatten([i \in 1..Len(tracks) |-> tracks[i].events])

\* The events one render iterates: build/index.js 85 (repeats 8),
\* index_09232025_2.ts 223 (repeats 32), index_09232025_3.ts 212-213.
ComposedEvents(variant, listing, u) ==
    CASE variant = "sampled"  -> getSampleSequence(Units(8))
      [] variant = "layered2" -> TrackEvents(getComposition2(listing, u, Units(32)))
      [] variant = "layered3" ->
            TrackEvents(getComposition3(generateSongStructure3(u), listing, u))

--------------------------------------------------------------------------
(* The sample-based render and its tool handler:                           *)
(* generateSampledTrackFile / play_sampled_music (src/build/index.js       *)
(* 82-131) and generateLayeredTrackFile / play_layered_music               *)
(* (src/src/index_09232025_2.ts 220-294, src/src/index_09232025_3.ts       *)
(* 209-275).  The three loops have the same text.                          *)

Variants == {"sampled", "layered2", "layered3"}

\* const sampleRate = 44100
SampleRate == 44100

\* What loadSample resolves to; the content of a fragment plays no part in
\* the control flow of a render.
LoadedSample(path) == <<1>>

\* Every fragment the folders list.
Listed(listing) == {<<role, k>> : role \in Roles, k \in 1..FragmentsPerRole} \cap
                   UNION {{<<role, k>> : k \in 1..listing[role]} : role \in Roles}

\* The transformations applied to each source buffer before it is appended:
\* maybeMutateBuffer and the blend (index_09232025_2.ts 74-95, 241-251), the
\* "clever sampling variations" (index_09232025_3.ts 228-230).
SourceFx(variant, u) ==
    CASE variant = "sampled"  -> {"resample"}
      [] variant = "layered2" ->
            {"resample"} \cup (IF u < 25 THEN {"pitchShift"} ELSE {})
            \cup (IF u < 10 THEN {"reverse"} ELSE {})
            \cup (IF u < 20 THEN {"delay"} ELSE {})
            \cup (IF u < 15 THEN {"blend"} ELSE {})
      [] variant = "layered3" ->
            {"resample"} \cup (IF u > 80 THEN {"pitchShift"} ELSE {})
            \cup (IF u > 90 THEN {"reverse"} ELSE {})
            \cup (IF u > 70 THEN {"distort"} ELSE {})

\* src/src/index_09232025_3.ts 74-79: the transformations masterFX appends.
masterFX(stages, u) ==
    stages \o (IF u > 50 THEN <<"delay">> ELSE <<>>)
           \o (IF u > 50 THEN <<"distort">> ELSE <<>>)

RenderIdle ==
    /\ rVariant = "none"
    /\ rListing = [role \in Roles |-> 0]
    /\ rFiles = {}
    /\ rDraw = 0
    /\ rPc = "idle"
    /\ rEvents = <<>>
    /\ rIdx = 0
    /\ rPending = {}
    /\ rSkipped = {}
    /\ rLoaded = <<>>
    /\ rBuffers = <<>>
    /\ rOffsets = <<>>
    /\ rMixCalls = 0
    /\ rStages = <<>>
    /\ rEncoded = FALSE
    /\ rWritten = FALSE
    /\ rPlayers = 0
    /\ rResponse = "none"

\* The tool is invoked: the folders list some fragments, and some of the
\* listed fragments are gone when the loop checks them.
RenderInit ==
    /\ rVariant \in Variants
    /\ rDraw \in Draws
    /\ \/ /\ rVariant = "sampled"
          /\ rListing = [role \in Roles |-> 0]
          /\ rFiles \in SUBSET SampledFiles
       \/ /\ rVariant \in {"layered2", "layered3"}
          /\ rListing \in [Roles -> {0, FragmentsPerRole}]
          /\ \E vanished \in SUBSET Listed(rListing) :
                /\ Cardinality(vanished) <= MaxVanished
                /\ rFiles = Listed(rListing) \ vanished
    /\ rPc = "start"
    /\ rEvents = <<>>
    /\ rIdx = 0
    /\ rPending = {}
    /\ rSkipped = {}
    /\ rLoaded = <<>>
    /\ rBuffers = <<>>
    /\ rOffsets = <<>>
    /\ rMixCalls = 0
    /\ rStages = <<>>
    /\ rEncoded = FALSE
    /\ rWritten = FALSE
    /\ rPlayers = 0
    /\ rResponse = "none"

rInputs == <<rVariant, rListing, rFiles, rDraw>>

\* getSampleSequence / getComposition, then the loop starts.
Compose ==
    /\ rPc = "start"
    /\ rEvents' = ComposedEvents(rVariant, rListing, rDraw)
    /\ rIdx' = 1
    /\ rPc' = "loop"
    /\ UNCHANGED <<rInputs, rPending, rSkipped, rLoaded, rBuffers, rOffsets,
                   rMixCalls, rStages, rEncoded, rWritten, rPlayers, rResponse>>

\* if (!fs.existsSync(samplePath)) { console.warn(...); continue; }
SkipMissing ==
    /\ rPc = "loop"
    /\ rIdx <= Len(rEvents)
    /\ rEvents[rIdx].samplePath \notin rFiles
    /\ rSkipped' = rSkipped \cup {rIdx}
    /\ rIdx' = rIdx + 1
    /\ UNCHANGED <<rInputs, rPc, rEvents, rPending, rLoaded, rBuffers, rOffsets,
                   rMixCalls, rStages, rEncoded, rWritten, rPlayers, rResponse>>

\* A loop that starts the load and goes on without awaiting it.
LoadStartNoAwait ==
    /\ rPc = "loop"
    /\ rIdx <= Len(rEvents)
    /\ rEvents[rIdx].samplePath \in rFiles
    /\ rPending' = rPending \cup {rIdx}
    /\ rIdx' = rIdx + 1
    /\ UNCHANGED <<rInputs, rPc, rEvents, rSkipped, rLoaded, rBuffers, rOffsets,
                   rMixCalls, rStages, rEncoded, rWritten, rPlayers, rResponse>>

\* let sampleBuffer = await loadSample(samplePath, sampleRate): the loop is
\* suspended until the load completes.
LoadStart ==
    /\ rPc = "loop"
    /\ rIdx <= Len(rEvents)
    /\ rEvents[rIdx].samplePath \in rFiles
    /\ rPending' = rPending \cup {rIdx}
    /\ rPc' = "loading"
    /\ UNCHANGED <<rInputs, rEvents, rIdx, rSkipped, rLoaded, rBuffers, rOffsets,
                   rMixCalls, rStages, rEncoded, rWritten, rPlayers, rResponse>>

\* index_09232025_2.ts 241-247: the event's sample is blended with another
\* one of its folder, which is loaded (and awaited) first.
BlendWanted ==
    LET role == rEvents[rIdx].samplePath[1]
        candidates == getSamplesFromFolder(rListing, role)
    IN  /\ rVariant = "layered2"
        /\ rDraw < 15
        /\ Len(candidates) > 1
        /\ Pick(rDraw, candidates) \in rFiles

\* buffers.push(sampleBuffer); offsets.push(Math.floor(event.time * sampleRate))
PushBuffer ==
    /\ rBuffers' = Append(rBuffers, LoadedSample(rEvents[rIdx].samplePath))
    /\ rOffsets' = Append(rOffsets, (rEvents[rIdx].time * SampleRate) \div 100)
    /\ rLoaded' = Append(rLoaded, rIdx)
    /\ rPending' = rPending \ {rIdx}
    /\ rIdx' = rIdx + 1
    /\ rPc' = "loop"

LoadComplete ==
    /\ rPc = "loading"
    /\ ~BlendWanted
    /\ PushBuffer
    /\ UNCHANGED <<rInputs, rEvents, rSkipped, rMixCalls, rStages, rEncoded,
                   rWritten, rPlayers, rResponse>>

BlendLoadStart ==
    /\ rPc = "loading"
    /\ BlendWanted
    /\ rPc' = "blending"
    /\ UNCHANGED <<rInputs, rEvents, rIdx, rPending, rSkipped, rLoaded, rBuffers,
                   rOffsets, rMixCalls, rStages, rEncoded, rWritten, rPlayers,
                   rResponse>>

BlendLoadComplete ==
    /\ rPc = "blending"
    /\ PushBuffer
    /\ UNCHANGED <<rInputs, rEvents, rSkipped, rMixCalls, rStages, rEncoded,
                   rWritten, rPlayers, rResponse>>

\* The loop is over: mixBuffers(buffers, offsets) returns the normalised sum
MixReturn ==
    /\ rPc = "loop"
    /\ rIdx > Len(rEvents)
    /\ ~mixBuffersThrows(rBuffers, rOffsets)
    /\ rMixCalls' = rMixCalls + 1
    /\ rStages' = <<"sum", "normalize">>
    /\ rPc' = "mixed"
    /\ UNCHANGED <<rInputs, rEvents, rIdx, rPending, rSkipped, rLoaded, rBuffers,
                   rOffsets, rEncoded, rWritten, rPlayers, rResponse>>

\* ... or throws, which rejects the render's promise.
MixThrow ==
    /\ rPc = "loop"
    /\ rIdx > Len(rEvents)
    /\ mixBuffersThrows(rBuffers, rOffsets)
    /\ rMixCalls' = rMixCalls + 1
    /\ rPc' = "threw"
    /\ UNCHANGED <<rInputs, rEvents, rIdx, rPending, rSkipped, rLoaded, rBuffers,
                   rOffsets, rStages, rEncoded, rWritten, rPlayers, rResponse>>

\* index_09232025_3.ts 238: trackBuffer = masterFX(trackBuffer)
MasterFX ==
    /\ rPc = "mixed"
    /\ rVariant = "layered3"
    /\ rStages' = masterFX(rStages, rDraw)
    /\ rPc' = "mastered"
    /\ UNCHANGED <<rInputs, rEvents, rIdx, rPending, rSkipped, rLoaded, rBuffers,
                   rOffsets, rMixCalls, rEncoded, rWritten, rPlayers, rResponse>>

\* const wav = await WavEncoder.encode(audioData)
Encode ==
    /\ \/ rPc = "mixed" /\ rVariant # "layered3"
       \/ rPc = "mastered"
    /\ rEncoded' = TRUE
    /\ rPc' = "encoded"
    /\ UNCHANGED <<rInputs, rEvents, rIdx, rPending, rSkipped, rLoaded, rBuffers,
                   rOffsets, rMixCalls, rStages, rWritten, rPlayers, rResponse>>

\* fs.writeFileSync(filePath, Buffer.from(wav)); return filePath
WriteFile ==
    /\ rPc = "encoded"
    /\ rWritten' = TRUE
    /\ rPc' = "written"
    /\ UNCHANGED <<rInputs, rEvents, rIdx, rPending, rSkipped, rLoaded, rBuffers,
                   rOffsets, rMixCalls, rStages, rEncoded, rPlayers, rResponse>>

\* The handler's try block: playAudioAsync(filePath); return the success text
PlayAndReturn ==
    /\ rPc = "written"
    /\ rPlayers' = rPlayers + 1
    /\ rResponse' = "success"
    /\ rPc' = "done"
    /\ UNCHANGED <<rInputs, rEvents, rIdx, rPending, rSkipped, rLoaded, rBuffers,
                   rOffsets, rMixCalls, rStages, rEncoded, rWritten>>

\* The handler's catch block: return the failure text
CatchAndReturn ==
    /\ rPc = "threw"
    /\ rResponse' = "failure"
    /\ rPc' = "done"
    /\ UNCHANGED <<rInputs, rEvents, rIdx, rPending, rSkipped, rLoaded, rBuffers,
                   rOffsets, rMixCalls, rStages, rEncoded, rWritten, rPlayers>>

RenderNext ==
    \/ (Compose /\ UNCHANGED <<mixVars, ambientVars, chordVars, progVars, drumVars, composeVars, loadVars, fxVars, songVars, playVars, retroVars, toolVars>>)
    \/ (SkipMissing /\ UNCHANGED <<mixVars, ambientVars, chordVars, progVars, drumVars, composeVars, loadVars, fxVars, songVars, playVars, retroVars, toolVars>>)
    \/ (LoadStart /\ UNCHANGED <<mixVars, ambientVars, chordVars, progVars, drumVars, composeVars, loadVars, fxVars, songVars, playVars, retroVars, toolVars>>)
    \/ (LoadComplete /\ UNCHANGED <<mixVars, ambientVars, chordVars, progVars, drumVars, composeVars, loadVars, fxVars, songVars, playVars, retroVars, toolVars>>)
    \/ (BlendLoadStart /\ UNCHANGED <<mixVars, ambientVars, chordVars, progVars, drumVars, composeVars, loadVars, fxVars, songVars, playVars, retroVars, toolVars>>)
    \/ (BlendLoadComplete /\ UNCHANGED <<mixVars, ambientVars, chordVars, progVars, drumVars, composeVars, loadVars, fxVars, songVars, playVars, retroVars, toolVars>>)
    \/ (MixReturn /\ UNCHANGED <<mixVars, ambientVars, chordVars, progVars, drumVars, composeVars, loadVars, fxVars, songVars, playVars, retroVars, toolVars>>)
    \/ (MixThrow /\ UNCHANGED <<mixVars, ambientVars, chordVars, progVars, drumVars, composeVars, loadVars, fxVars, songVars, playVars, retroVars, toolVars>>)
    \/ (MasterFX /\ UNCHANGED <<mixVars, ambientVars, chordVars, progVars, drumVars, composeVars, loadVars, fxVars, songVars, playVars, retroVars, toolVars>>)
    \/ (Encode /\ UNCHANGED <<mixVars, ambientVars, chordVars, progVars, drumVars, composeVars, loadVars, fxVars, songVars, playVars, retroVars, toolVars>>)
    \/ (WriteFile /\ UNCHANGED <<mixVars, ambientVars, chordVars, progVars, drumVars, composeVars, loadVars, fxVars, songVars, playVars, retroVars, toolVars>>)
    \/ (PlayAndReturn /\ UNCHANGED <<mixVars, ambientVars, chordVars, progVars, drumVars, composeVars, loadVars, fxVars, songVars, playVars, retroVars, toolVars>>)
    \/ (CatchAndReturn /\ UNCHANGED <<mixVars, ambientVars, chordVars, progVars, drumVars, composeVars, loadVars, fxVars, songVars, playVars, retroVars, toolVars>>)

--------------------------------------------------------------------------
(* The MIDI + ambient tool handler: play_ambient_retrowave_song,           *)
(* src/src/index.ts 231-282 (the auto_play handler of unnamed/part_007     *)
(* 1047-1093 has the same steps).                                          *)

\* src/src/index.ts 47
NATURE_SAMPLES == {"rain.wav", "crickets.wav", "water.wav", "wind.wav"}

\* What the 'close' event of the timidity process reports: 0, a nonzero exit
\* code, or null (-1) when a signal ended it.
ExitCodes == {-1, 0, 1}

\* A decoded .wav file: a non-empty channel.
DecodedAudio == BufferSet \ {<<>>}

AmbientIdle ==
    /\ aSamples = {}
    /\ aPc = "idle"
    /\ aMidiWritten = FALSE
    /\ aTimidityCode = 0
    /\ aSynthWav = FALSE
    /\ aNatureSound = "none"
    /\ aSynthAudio = <<>>
    /\ aNatureAudio = <<>>
    /\ aFinalBuffer = NoBuffer
    /\ aStages = <<>>
    /\ aEncoded = FALSE
    /\ aFinalWritten = FALSE
    /\ aPlayers = 0
    /\ aError = ""
    /\ aResponse = "none"

\* The tool is invoked; any of the nature samples may be absent.
AmbientInit ==
    /\ aSamples \in SUBSET NATURE_SAMPLES
    /\ aPc = "start"
    /\ aMidiWritten = FALSE
    /\ aTimidityCode = 0
    /\ aSynthWav = FALSE
    /\ aNatureSound = "none"
    /\ aSynthAudio = <<>>
    /\ aNatureAudio = <<>>
    /\ aFinalBuffer = NoBuffer
    /\ aStages = <<>>
    /\ aEncoded = FALSE
    /\ aFinalWritten = FALSE
    /\ aPlayers = 0
    /\ aError = ""
    /\ aResponse = "none"

\* index.ts 239: generateSongMIDI() writes the .mid file
generateSongMIDI ==
    /\ aPc = "start"
    /\ aMidiWritten' = TRUE
    /\ aPc' = "midi"
    /\ UNCHANGED <<aSamples, aTimidityCode, aSynthWav, aNatureSound, aSynthAudio,
                   aNatureAudio, aFinalBuffer, aStages, aEncoded, aFinalWritten,
                   aPlayers, aError, aResponse>>

\* index.ts 212-215, 242: midiToWav spawns timidity; the handler awaits
midiToWavSpawn ==
    /\ aPc = "midi"
    /\ aPc' = "rendering"
    /\ UNCHANGED <<aSamples, aMidiWritten, aTimidityCode, aSynthWav, aNatureSound,
                   aSynthAudio, aNatureAudio, aFinalBuffer, aStages, aEncoded,
                   aFinalWritten, aPlayers, aError, aResponse>>

\* A close handler that resolves whatever the exit code is.
midiToWavCloseIgnoringCode ==
    /\ aPc = "rendering"
    /\ \E code \in ExitCodes, wav \in BOOLEAN :
          /\ code = 0 => wav
          /\ aTimidityCode' = code
          /\ aSynthWav' = wav
          /\ aPc' = "converted"
          /\ aError' = aError
    /\ UNCHANGED <<aSamples, aMidiWritten, aNatureSound, aSynthAudio, aNatureAudio,
                   aFinalBuffer, aStages, aEncoded, aFinalWritten, aPlayers,
                   aResponse>>

\* index.ts 218-221: timidity closes; code 0 resolves, any other code
\* rejects.  A failed timidity may or may not leave a .wav file behind.
midiToWavClose ==
    /\ aPc = "rendering"
    /\ \E code \in ExitCodes, wav \in BOOLEAN :
          /\ code = 0 => wav
          /\ aTimidityCode' = code
          /\ aSynthWav' = wav
          /\ IF code = 0
             THEN aPc' = "converted" /\ aError' = aError
             ELSE aPc' = "threw" /\ aError' = "Timidity failed"
    /\ UNCHANGED <<aSamples, aMidiWritten, aNatureSound, aSynthAudio, aNatureAudio,
                   aFinalBuffer, aStages, aEncoded, aFinalWritten, aPlayers,
                   aResponse>>

\* A selection that does not check that the sample exists.
selectNatureSoundUnchecked ==
    /\ aPc = "converted"
    /\ \E natureSound \in NATURE_SAMPLES :
          /\ aNatureSound' = natureSound
          /\ aPc' = "loading_synth"
          /\ aError' = aError
    /\ UNCHANGED <<aSamples, aMidiWritten, aTimidityCode, aSynthWav, aSynthAudio,
                   aNatureAudio, aFinalBuffer, aStages, aEncoded, aFinalWritten,
                   aPlayers, aResponse>>

\* index.ts 246-252: randomChoice(NATURE_SAMPLES); throw when it is absent
selectNatureSound ==
    /\ aPc = "converted"
    /\ \E natureSound \in NATURE_SAMPLES :
          /\ aNatureSound' = natureSound
          /\ IF natureSound \in aSamples
             THEN aPc' = "loading_synth" /\ aError' = aError
             ELSE aPc' = "threw" /\ aError' = "Sample not found"
    /\ UNCHANGED <<aSamples, aMidiWritten, aTimidityCode, aSynthWav, aSynthAudio,
                   aNatureAudio, aFinalBuffer, aStages, aEncoded, aFinalWritten,
                   aPlayers, aResponse>>

\* index.ts 68-71, 255: await loadWavFile(synthWavFile); readFileSync throws
\* when the file is not there
loadSynthWav ==
    /\ aPc = "loading_synth"
    /\ IF aSynthWav
       THEN /\ aSynthAudio' \in DecodedAudio
            /\ aPc' = "loading_nature"
            /\ aError' = aError
       ELSE /\ aSynthAudio' = aSynthAudio
            /\ aPc' = "threw"
            /\ aError' = "ENOENT"
    /\ UNCHANGED <<aSamples, aMidiWritten, aTimidityCode, aSynthWav, aNatureSound,
                   aNatureAudio, aFinalBuffer, aStages, aEncoded, aFinalWritten,
                   aPlayers, aResponse>>

\* index.ts 256: await loadWavFile(natureSoundPath)
loadNatureWav ==
    /\ aPc = "loading_nature"
    /\ IF aNatureSound \in aSamples
       THEN /\ aNatureAudio' \in DecodedAudio
            /\ aPc' = "loaded"
            /\ aError' = aError
       ELSE /\ aNatureAudio' = aNatureAudio
            /\ aPc' = "threw"
            /\ aError' = "ENOENT"
    /\ UNCHANGED <<aSamples, aMidiWritten, aTimidityCode, aSynthWav, aNatureSound,
                   aSynthAudio, aFinalBuffer, aStages, aEncoded, aFinalWritten,
                   aPlayers, aResponse>>

\* index.ts 260: mixAudio(synth, nature, 0.4)
mixAudioCall ==
    /\ aPc = "loaded"
    /\ aFinalBuffer' = mixAudio(aSynthAudio, aNatureAudio, <<2, 5>>)
    /\ aStages' = <<"sum", "normalize">>
    /\ aPc' = "mixed"
    /\ UNCHANGED <<aSamples, aMidiWritten, aTimidityCode, aSynthWav, aNatureSound,
                   aSynthAudio, aNatureAudio, aEncoded, aFinalWritten, aPlayers,
                   aError, aResponse>>

\* index.ts 263-264: await WavEncoder.encode(finalAudioData)
encodeFinal ==
    /\ aPc = "mixed"
    /\ aEncoded' = TRUE
    /\ aPc' = "encoded"
    /\ UNCHANGED <<aSamples, aMidiWritten, aTimidityCode, aSynthWav, aNatureSound,
                   aSynthAudio, aNatureAudio, aFinalBuffer, aStages, aFinalWritten,
                   aPlayers, aError, aResponse>>

\* index.ts 265-266: fs.writeFileSync(finalWavPath, ...)
writeFinalWav ==
    /\ aPc = "encoded"
    /\ aFinalWritten' = TRUE
    /\ aPc' = "written"
    /\ UNCHANGED <<aSamples, aMidiWritten, aTimidityCode, aSynthWav, aNatureSound,
                   aSynthAudio, aNatureAudio, aFinalBuffer, aStages, aEncoded,
                   aPlayers, aError, aResponse>>

\* index.ts 225-228, 270-274: playWav spawns the player; the success text
playWavAndReturn ==
    /\ aPc = "written"
    /\ aPlayers' = aPlayers + 1
    /\ aResponse' = "success"
    /\ aPc' = "done"
    /\ UNCHANGED <<aSamples, aMidiWritten, aTimidityCode, aSynthWav, aNatureSound,
                   aSynthAudio, aNatureAudio, aFinalBuffer, aStages, aEncoded,
                   aFinalWritten, aError>>

\* index.ts 275-280: the catch block returns the failure text
catchAndReturnFailure ==
    /\ aPc = "threw"
    /\ aResponse' = "failure"
    /\ aPc' = "done"
    /\ UNCHANGED <<aSamples, aMidiWritten, aTimidityCode, aSynthWav, aNatureSound,
                   aSynthAudio, aNatureAudio, aFinalBuffer, aStages, aEncoded,
                   aFinalWritten, aPlayers, aError>>

AmbientNext ==
    \/ (generateSongMIDI /\ UNCHANGED <<mixVars, renderVars, chordVars, progVars, drumVars, composeVars, loadVars, fxVars, songVars, playVars, retroVars, toolVars>>)
    \/ (midiToWavSpawn /\ UNCHANGED <<mixVars, renderVars, chordVars, progVars, drumVars, composeVars, loadVars, fxVars, songVars, playVars, retroVars, toolVars>>)
    \/ (midiToWavClose /\ UNCHANGED <<mixVars, renderVars, chordVars, progVars, drumVars, composeVars, loadVars, fxVars, songVars, playVars, retroVars, toolVars>>)
    \/ (selectNatureSound /\ UNCHANGED <<mixVars, renderVars, chordVars, progVars, drumVars, composeVars, loadVars, fxVars, songVars, playVars, retroVars, toolVars>>)
    \/ (loadSynthWav /\ UNCHANGED <<mixVars, renderVars, chordVars, progVars, drumVars, composeVars, loadVars, fxVars, songVars, playVars, retroVars, toolVars>>)
    \/ (loadNatureWav /\ UNCHANGED <<mixVars, renderVars, chordVars, progVars, drumVars, composeVars, loadVars, fxVars, songVars, playVars, retroVars, toolVars>>)
    \/ (mixAudioCall /\ UNCHANGED <<mixVars, renderVars, chordVars, progVars, drumVars, composeVars, loadVars, fxVars, songVars, playVars, retroVars, toolVars>>)
    \/ (encodeFinal /\ UNCHANGED <<mixVars, renderVars, chordVars, progVars, drumVars, composeVars, loadVars, fxVars, songVars, playVars, retroVars, toolVars>>)
    \/ (writeFinalWav /\ UNCHANGED <<mixVars, renderVars, chordVars, progVars, drumVars, composeVars, loadVars, fxVars, songVars, playVars, retroVars, toolVars>>)
    \/ (playWavAndReturn /\ UNCHANGED <<mixVars, renderVars, chordVars, progVars, drumVars, composeVars, loadVars, fxVars, songVars, playVars, retroVars, toolVars>>)
    \/ (catchAndReturnFailure /\ UNCHANGED <<mixVars, renderVars, chordVars, progVars, drumVars, composeVars, loadVars, fxVars, songVars, playVars, retroVars, toolVars>>)

--------------------------------------------------------------------------
(* Music theory: scales, progressions and the chord resolver.             *)
(* A degree symbol is the sequence of its characters; a note is a record  *)
(* of the pitch-class name and the octave number the template string      *)
(* `${scale[i]}${octave}` is made of.                                     *)

\* src/src/index.ts 31-35 and src/unnamed/part_008 22-28
SCALES == {
    <<"C", "D", "D#", "F", "G", "G#", "A#">>,
    <<"A", "B", "C", "D", "E", "F", "G">>,
    <<"C", "D", "D#", "F", "G", "A", "A#">>,
    <<"C", "D", "E", "F", "G", "A", "B">>,
    <<"C", "C#", "D#", "F", "G", "G#", "A#">> }

\* The seven degree symbols, in the order of their indices.
DegreeTable == <<
    <<"i">>, <<"i", "i">>, <<"i", "i", "i">>, <<"i", "v">>,
    <<"v">>, <<"v", "i">>, <<"v", "i", "i">> >>

\* String.prototype.toLowerCase on the characters degree symbols are made of
LowerOf(c) == CASE c = "I" -> "i" [] c = "V" -> "v" [] OTHER -> c

UpperOf(c) == CASE c = "i" -> "I" [] c = "v" -> "V" [] OTHER -> c

toLowerCase(str) == [k \in 1..Len(str) |-> LowerOf(str[k])]

toUpperCase(str) == [k \in 1..Len(str) |-> UpperOf(str[k])]

\* src/src/index.ts 37-42 and src/unnamed/part_008 30-36
CHORD_PROGRESSIONS == {
    <<<<"v", "i">>, <<"I", "V">>, <<"I">>, <<"V">>>>,
    <<<<"i">>, <<"V", "I">>, <<"I", "I", "I">>, <<"V", "I", "I">>>>,
    <<<<"I">>, <<"V">>, <<"v", "i">>, <<"I", "V">>>>,
    <<<<"i">>, <<"v">>, <<"i", "v">>, <<"i">>>>,
    <<<<"I">>, <<"V">>, <<"v", "i">>, <<"i", "i", "i">>,
      <<"I", "V">>, <<"I">>, <<"I", "V">>, <<"V">>>>,
    <<<<"I">>, <<"I", "V">>, <<"V">>, <<"I">>>>,
    <<<<"I">>, <<"v", "i">>, <<"I", "V">>, <<"V">>>> }

\* Degree symbols in lower, upper and mixed case.
DegreeSymbols ==
    {DegreeTable[k] : k \in 1..7} \cup {toUpperCase(DegreeTable[k]) : k \in 1..7}
        \cup {<<"V", "i">>, <<"i", "V">>, <<"I", "i", "I">>, <<"v", "I", "i">>}

\* Strings the degree table has no entry for.
UnknownSymbols == {<<"v", "i", "i", "i">>, <<"x">>}

\* The progressions the resolver is called with.
ProgressionInputs ==
    CHORD_PROGRESSIONS \cup {<<d>> : d \in DegreeSymbols \cup UnknownSymbols}

Octaves == 1..MaxOctave

\* JavaScript's undefined (a missing table entry), and NaN, what arithmetic
\* on it gives.
Undefined == -1

NaN == Undefined

\* degreeMap[key]: the index of the symbol, undefined for any other key
degreeMap(key) ==
    IF \E k \in 1..7 : DegreeTable[k] = key
    THEN (CHOOSE k \in 1..7 : DegreeTable[k] = key) - 1
    ELSE Undefined

\* `${scale[index]}${octave}`
NoteName(scale, index, octave) ==
    [pitch  |-> IF index = Undefined THEN "undefined" ELSE scale[index + 1],
     octave |-> octave]

\* A reduction that wraps one entry too early.
Mod7Short(baseIndex, k) ==
    IF baseIndex = Undefined THEN Undefined ELSE (baseIndex + k) % 6

\* (baseIndex + k) % 7, NaN when baseIndex is undefined
Mod7(baseIndex, k) ==
    IF baseIndex = Undefined THEN Undefined ELSE (baseIndex + k) % 7

\* src/unnamed/part_008 57-68: all three notes at octave
getChordsFromProgression(progression, scale, octave) ==
    [d \in 1..Len(progression) |->
        LET baseIndex == degreeMap(toLowerCase(progression[d]))
        IN  << NoteName(scale, baseIndex, octave),
               NoteName(scale, Mod7(baseIndex, 2), octave),
               NoteName(scale, Mod7(baseIndex, 4), octave) >>]

\* src/src/index.ts 97-103: root and third at octave, fifth at octave + 1
getChords(progression, scale, octave) ==
    [d \in 1..Len(progression) |->
        LET baseIndex == degreeMap(toLowerCase(progression[d]))
        IN  << NoteName(scale, baseIndex, octave),
               NoteName(scale, Mod7(baseIndex, 2), octave),
               NoteName(scale, Mod7(baseIndex, 4), octave + 1) >>]

\* src/unnamed/part_007 775-780: getNote
getNote(scale, octave, index) ==
    IF index = Undefined
    THEN NoteName(scale, Undefined, NaN)
    ELSE LET notesInScale == Len(scale)
             noteIndex    == index % notesInScale
             octaveChange == index \div notesInScale
         IN  NoteName(scale, noteIndex, octave + octaveChange)

\* baseIndex + k, NaN when baseIndex is undefined
Plus(baseIndex, k) ==
    IF baseIndex = Undefined THEN Undefined ELSE baseIndex + k

\* src/unnamed/part_007 773-787: the octave follows the unreduced index
getChordsCarrying(progression, scale, octave) ==
    [d \in 1..Len(progression) |->
        LET baseIndex == degreeMap(toLowerCase(progression[d]))
        IN  << getNote(scale, octave, baseIndex),
               getNote(scale, octave, Plus(baseIndex, 2)),
               getNote(scale, octave, Plus(baseIndex, 4)) >>]

ChordVariants == {"getChords", "getChordsCarrying", "getChordsFromProgression"}

ChordsIdle ==
    /\ cVariant = "none"
    /\ cProgression = <<>>
    /\ cScale = <<>>
    /\ cOctave = 0
    /\ cPc = "idle"
    /\ cChords = <<>>

ChordsInit ==
    /\ cVariant \in ChordVariants
    /\ cProgression \in ProgressionInputs
    /\ cScale \in SCALES
    /\ cOctave \in Octaves
    /\ cPc = "call"
    /\ cChords = <<>>

\* The resolver of the variant returns.
ResolveChords ==
    /\ cPc = "call"
    /\ cChords' = CASE cVariant = "getChords" ->
                         getChords(cProgression, cScale, cOctave)
                    [] cVariant = "getChordsCarrying" ->
                         getChordsCarrying(cProgression, cScale, cOctave)
                    [] OTHER ->
                         getChordsFromProgression(cProgression, cScale, cOctave)
    /\ cPc' = "returned"
    /\ UNCHANGED <<cVariant, cProgression, cScale, cOctave>>

ChordsNext ==
    \/ (ResolveChords /\ UNCHANGED <<mixVars, renderVars, ambientVars, progVars, drumVars, composeVars, loadVars, fxVars, songVars, playVars, retroVars, toolVars>>)

--------------------------------------------------------------------------
(* The choice of the verse and chorus progressions in generateSongMIDI:   *)
(* src/src/index.ts 192-193, src/unnamed/part_007 385-404 and 919-953.     *)
(* A progression is identified by its key in CHORD_PROGRESSIONS, as the    *)
(* filter `p !== verseProgression` compares the array objects.            *)

\* Object.values(CHORD_PROGRESSIONS), by key: index.ts 37-42
ProgressionKeys == <<"synthwave", "retro", "pop", "dark">>

\* part_007 168-175 and 714-723
ProgressionKeys7 == <<"synthwave", "retro", "pop", "dark", "jazzy", "emotional">>

\* The symbols of each entry of the catalogs.
ProgressionOf(key) ==
    CASE key = "synthwave" -> <<<<"v", "i">>, <<"I", "V">>, <<"I">>, <<"V">>>>
      [] key = "retro"     -> <<<<"i">>, <<"V", "I">>, <<"I", "I", "I">>, <<"V", "I", "I">>>>
      [] key = "pop"       -> <<<<"I">>, <<"V">>, <<"v", "i">>, <<"I", "V">>>>
      [] key = "dark"      -> <<<<"i">>, <<"v">>, <<"i", "v">>, <<"i">>>>
      [] key = "jazzy"     -> <<<<"i", "i">>, <<"V">>, <<"I">>, <<"I", "V">>>>
      [] key = "emotional" -> <<<<"i">>, <<"V", "I", "I">>, <<"V", "I">>, <<"V">>>>
      [] OTHER             -> <<>>

\* arr.filter(p => p !== verseProgression)
FilterOut(arr, key) == SelectSeq(arr, LAMBDA p : p # key)

\* arr[Math.floor(Math.random() * arr.length)]
randomChoice(u, arr) == arr[RandomIndex(u, Len(arr)) + 1]

\* The random branch: the chorus is drawn from the other entries.
RandomProgressions(keys, draws) ==
    LET verseProgression == randomChoice(draws[1], keys)
    IN  [verse  |-> verseProgression,
         chorus |-> randomChoice(draws[2], FilterOut(keys, verseProgression))]

\* index.ts 192-193: no tone argument
ChooseProgressions(draws) == RandomProgressions(ProgressionKeys, draws)

\* part_007 385-404
ChooseProgressions7a(tone, draws) ==
    CASE tone = "dark"      -> [verse |-> "dark", chorus |-> "retro"]
      [] tone = "jazzy"     -> [verse |-> "jazzy", chorus |-> "jazzy"]
      [] tone = "emotional" -> [verse |-> "emotional", chorus |-> "pop"]
      [] OTHER              -> RandomProgressions(ProgressionKeys7, draws)

\* part_007 919-953
ChooseProgressions7b(tone, draws) ==
    CASE tone = "dark"      -> [verse |-> "dark", chorus |-> "retro"]
      [] tone = "jazzy"     -> [verse |-> "jazzy", chorus |-> "jazzy"]
      [] tone = "emotional" -> [verse |-> "emotional", chorus |-> "emotional"]
      [] tone = "synthwave" -> [verse |-> "emotional", chorus |-> "synthwave"]
      [] tone = "retro"     -> [verse |-> "retro", chorus |-> "retro"]
      [] tone = "pop"       -> [verse |-> "pop", chorus |-> "pop"]
      [] OTHER              -> RandomProgressions(ProgressionKeys7, draws)

\* part_007 1047: the enum of the tone argument, which is optional
Tones == {"dark", "jazzy", "emotional", "synthwave", "retro", "pop", "undefined"}

\* One value of Math.random() for each index randomChoice can return.
ChoiceDraws == {5, 20, 35, 55, 70, 90}

ProgVariants == {"index", "part_007a", "part_007b"}

ProgIdle ==
    /\ pVariant = "none"
    /\ pTone = "undefined"
    /\ pDraws = <<0, 0>>
    /\ pPc = "idle"
    /\ pVerse = "none"
    /\ pChorus = "none"

ProgInit ==
    /\ pVariant \in ProgVariants
    /\ pTone \in (IF pVariant = "index" THEN {"undefined"} ELSE Tones)
    /\ pDraws \in ChoiceDraws \X ChoiceDraws
    /\ pPc = "call"
    /\ pVerse = "none"
    /\ pChorus = "none"

\* generateSongMIDI assigns verseProgression and chorusProgression.
AssignProgressions ==
    /\ pPc = "call"
    /\ LET chosen == CASE pVariant = "index"     -> ChooseProgressions(pDraws)
                       [] pVariant = "part_007a" -> ChooseProgressions7a(pTone, pDraws)
                       [] OTHER                  -> ChooseProgressions7b(pTone, pDraws)
       IN  /\ pVerse' = chosen.verse
           /\ pChorus' = chosen.chorus
    /\ pPc' = "chosen"
    /\ UNCHANGED <<pVariant, pTone, pDraws>>

ProgNext ==
    \/ (AssignProgressions /\ UNCHANGED <<mixVars, renderVars, ambientVars, chordVars, drumVars, composeVars, loadVars, fxVars, songVars, playVars, retroVars, toolVars>>)

--------------------------------------------------------------------------
(* The MIDI drum generator: src/src/index.ts 107-132 and                   *)
(* src/unnamed/part_007 789-835.  A drum track is the sequence of its      *)
(* pattern invocations, each for one measure of one section.               *)

\* src/src/index.ts 55-62
TemplatesMidi ==
    << <<Section("intro", 4), Section("verse", 8), Section("chorus", 8),
         Section("verse", 8), Section("chorus", 8), Section("outro", 4)>>,
       <<Section("intro", 2), Section("verse", 4), Section("chorus", 4),
         Section("outro", 2)>> >>

\* src/unnamed/part_007 731-738
TemplatesMidi7 ==
    TemplatesMidi \o
    << <<Section("intro", 4), Section("verse", 8), Section("chorus", 8),
         Section("bridge", 4), Section("chorus", 8), Section("outro", 4)>> >>

\* The keys of DRUM_PATTERNS: index.ts 107-113
DRUM_PATTERNS == {"intro", "verse", "chorus", "fill", "outro"}

\* part_007 789-803
DRUM_PATTERNS7 == {"intro", "verse_A", "verse_B", "chorus_A", "chorus_B",
                   "bridge", "fill", "outro"}

\* DRUM_PATTERNS[section.name]: undefined for a name that is not a key
PatternLookup(table, name) == IF name \in table THEN name ELSE "undefined"

\* A lookup without the fallback.
OrFirst(a, b) == a

\* a || b
Or(a, b) == IF a = "undefined" THEN b ELSE a

\* index.ts 126: DRUM_PATTERNS[section.name] || DRUM_PATTERNS.verse
DrumPattern(name) == Or(PatternLookup(DRUM_PATTERNS, name), "verse")

\* part_007 817-829: the switch on section.name
DrumPattern7(name, u) ==
    CASE name = "verse"  -> randomChoice(u, <<"verse_A", "verse_B">>)
      [] name = "chorus" -> randomChoice(u, <<"chorus_A", "chorus_B">>)
      [] name = "bridge" -> "bridge"
      [] OTHER           -> Or(PatternLookup(DRUM_PATTERNS7, name), "verse_A")

\* A fill before every following section, the outro included.
needsFillBeforeAny(structure, i) == i < Len(structure)

\* index.ts 120: i < structure.length - 1 && structure[i+1].name !== 'outro'
\* (sections are counted from 1 here)
needsFill(structure, i) ==
    i < Len(structure) /\ structure[i + 1].name # "outro"

\* index.ts 121-129: the invocations for the measures of section i
DrumMeasures(variant, structure, i, u) ==
    LET section == structure[i]
    IN  [m \in 1..section.length |->
            [section |-> i,
             measure |-> m - 1,
             pattern |-> IF (m - 1 = section.length - 1) /\ needsFill(structure, i)
                         THEN "fill"
                         ELSE IF variant = "index"
                              THEN DrumPattern(section.name)
                              ELSE DrumPattern7(section.name, u)]]

\* index.ts 115-132 and part_007 804-835
generateDrumTrack(variant, structure, u) ==
    Flatten([i \in 1..Len(structure) |-> DrumMeasures(variant, structure, i, u)])

DrumVariants == {"index", "part_007"}

\* Section names of the repository's templates that may stand between an
\* intro and an outro.
MiddleNames == {"verse", "chorus", "bridge", "build", "drop"}

\* Structures shaped as generateSongStructure builds them, neighbouring
\* sections differ and the outro is the last section, over all of these
\* names.
OtherStructures ==
    {<<Section("intro", 2), Section(x, 1), Section(y, 4), Section("outro", 2)>> :
        x \in MiddleNames, y \in MiddleNames} \
    {<<Section("intro", 2), Section(x, 1), Section(x, 4), Section("outro", 2)>> :
        x \in MiddleNames}

DrumInputs(variant) ==
    (IF variant = "index" THEN SeqRange(TemplatesMidi) ELSE SeqRange(TemplatesMidi7))
    \cup OtherStructures

DrumsIdle ==
    /\ dVariant = "none"
    /\ dStructure = <<>>
    /\ dDraw = 0
    /\ dPc = "idle"
    /\ dTrack = <<>>

DrumsInit ==
    /\ dVariant \in DrumVariants
    /\ dStructure \in DrumInputs(dVariant)
    /\ dDraw \in ChoiceDraws
    /\ dPc = "call"
    /\ dTrack = <<>>

\* generateDrumTrack returns.
DrumTrackReturn ==
    /\ dPc = "call"
    /\ dTrack' = generateDrumTrack(dVariant, dStructure, dDraw)
    /\ dPc' = "returned"
    /\ UNCHANGED <<dVariant, dStructure, dDraw>>

DrumsNext ==
    \/ (DrumTrackReturn /\ UNCHANGED <<mixVars, renderVars, ambientVars, chordVars, progVars, composeVars, loadVars, fxVars, songVars, playVars, retroVars, toolVars>>)

--------------------------------------------------------------------------
(* The composers: generateSongMIDI of src/src/index.ts (189-210) and of    *)
(* src/src/index_09232025_4.ts (82-95), getComposition of                  *)
(* src/src/index_09232025_3.ts (141-206).  A track is a record of its      *)
(* role, its name and its events; an event carries the section and the     *)
(* unit (measure, beat or repeat) it was emitted for and its start time.   *)
(* A MIDI track is played from tick 0 and an event added without a         *)
(* startTick starts where the event before it ends.                       *)

\* The ticks of a note duration: a quarter note is 128 ticks (index.ts 122,
\* `measure * 4 * 128`).
Duration(d) ==
    CASE d = "1" -> 512 [] d = "2" -> 256 [] d = "4" -> 128
      [] d = "8" -> 64 [] OTHER -> 32

\* The length of one unit in the time scale of the variant: a measure of
\* index.ts, a beat of index_09232025_4.ts, and the hundredths in which the
\* times of index_09232025_3.ts are counted.
TicksPerUnit(variant) ==
    CASE variant = "index" -> 4 * Duration("4")
      [] variant = "index_4" -> Duration("4")
      [] OTHER -> 100

Item(i, r, ticks) == [section |-> i, unit |-> r, ticks |-> ticks]

\* track.addEvent for each item in turn, from the cursor on
RECURSIVE Sequential(_, _)
Sequential(items, cursor) ==
    IF items = <<>> THEN <<>>
    ELSE <<[section |-> Head(items).section,
            unit    |-> Head(items).unit,
            time    |-> cursor]>>
         \o Sequential(Tail(items), cursor + Head(items).ticks)

\* index.ts 172-185: one whole note per measure, the outro left out
generatePadTrack(structure) ==
    Sequential(Flatten([i \in 1..Len(structure) |->
        IF structure[i].name = "outro" THEN <<>>
        ELSE [m \in 1..structure[i].length |-> Item(i, m - 1, Duration("1"))]]), 0)

\* index.ts 133-138: the ticks one call of a bass pattern adds
BassPatternTicks(name) ==
    IF name = "chorus"
    THEN 4 * Duration("8")
    ELSE 2 * (Duration("16") + Duration("8")) + Duration("4")

\* index.ts 139-152: one pattern per measure, intro and outro left out
generateBassTrack(structure) ==
    Sequential(Flatten([i \in 1..Len(structure) |->
        IF structure[i].name \in {"intro", "outro"} THEN <<>>
        ELSE [m \in 1..structure[i].length |->
                Item(i, m - 1, BassPatternTicks(structure[i].name))]]), 0)

\* index.ts 153-171: four patterns of four sixteenth notes per measure of a
\* chorus, nothing for any other section
generateArpeggioTrack(structure) ==
    Sequential(Flatten([i \in 1..Len(structure) |->
        IF structure[i].name # "chorus" THEN <<>>
        ELSE Flatten([m \in 1..structure[i].length |->
                [j \in 1..4 |-> Item(i, m - 1, 4 * Duration("16"))]])]), 0)

Track(role, name, events) == [role |-> role, name |-> name, events |-> events]

\* index.ts 202: the four tracks of the song
SongTracks(structure, u) ==
    << Track("drum", <<"drum">>, generateDrumTrack("index", structure, u)),
       Track("pad", <<"pad">>, generatePadTrack(structure)),
       Track("bass", <<"bass">>, generateBassTrack(structure)),
       Track("arp", <<"arp">>, generateArpeggioTrack(structure)) >>

\* src/src/index_09232025_4.ts 28-34
Templates4 ==
    << <<Section("intro", 4), Section("verse", 8), Section("chorus", 8), Section("outro", 4)>>,
       <<Section("verse", 8), Section("chorus", 8), Section("bridge", 4), Section("chorus", 8)>> >>

\* index_09232025_4.ts 42-53: `length` notes, each a quarter or an eighth
generateMelodyTrack4(k, length, u) ==
    Sequential([i \in 1..length |->
        Item(k, i - 1, Duration(randomChoice(u, <<"4", "8">>)))], 0)

\* index_09232025_4.ts 56-67: `length` quarter notes
generateBassTrack4(k, length) ==
    Sequential([i \in 1..length |-> Item(k, i - 1, Duration("4"))], 0)

\* index_09232025_4.ts 70-80: per beat a kick, a snare and a hi-hat, each
\* on a draw of its own
generateDrumTrack4(k, length, u) ==
    Sequential(Flatten([i \in 1..length |->
        (IF u > 30 THEN <<Item(k, i - 1, Duration("4"))>> ELSE <<>>)
        \o (IF u > 60 THEN <<Item(k, i - 1, Duration("4"))>> ELSE <<>>)
        \o (IF u > 50 THEN <<Item(k, i - 1, Duration("8"))>> ELSE <<>>)]), 0)

\* index_09232025_4.ts 82-90: three tracks pushed for every section
SongTracks4(structure, u) ==
    Flatten([k \in 1..Len(structure) |->
        << Track("melody", <<"melody">>, generateMelodyTrack4(k, structure[k].length, u)),
           Track("bass", <<"bass">>, generateBassTrack4(k, structure[k].length)),
           Track("drum", <<"drum">>, generateDrumTrack4(k, structure[k].length, u)) >>])

\* Every role folder holds fragments.
FullListing == [role \in Roles |-> FragmentsPerRole]

\* The number of units before section k.
RECURSIVE OffsetOf(_, _)
OffsetOf(structure, k) ==
    IF k <= 1 THEN 0 ELSE structure[k - 1].length + OffsetOf(structure, k - 1)

\* index_09232025_3.ts 141-206: the tracks getComposition returns; with
\* every folder filled three tracks are pushed per section, so track j is of
\* section (j - 1) \div 3 + 1, and the unit of an event is the whole part of
\* its time less the section's offset.
SongTracks3(structure, u) ==
    LET tracks == getComposition3(structure, FullListing, u)
    IN  [j \in 1..Len(tracks) |->
            LET k == ((j - 1) \div 3) + 1
            IN  Track(tracks[j].name[1], tracks[j].name,
                      [n \in 1..Len(tracks[j].events) |->
                          [section |-> k,
                           unit    |-> (tracks[j].events[n].time \div 100)
                                           - OffsetOf(structure, k),
                           time    |-> tracks[j].events[n].time]])]

\* The sections with their lengths cut to the units the model keeps.
CutStructure(structure) ==
    [k \in 1..Len(structure) |->
        Section(structure[k].name, Units(structure[k].length))]

ComposeVariants == {"index", "index_3", "index_4"}

ComposeIdle ==
    /\ tVariant = "none"
    /\ tDraws = <<0, 0>>
    /\ tPc = "idle"
    /\ tStructure = <<>>
    /\ tTracks = <<>>

ComposeInit ==
    /\ tVariant \in ComposeVariants
    /\ tDraws \in ChoiceDraws \X ChoiceDraws
    /\ tPc = "start"
    /\ tStructure = <<>>
    /\ tTracks = <<>>

\* const structure = generateSongStructure()
ChooseStructure ==
    /\ tPc = "start"
    /\ tStructure' = CASE tVariant = "index" -> randomChoice(tDraws[1], TemplatesMidi)
                       [] tVariant = "index_4" -> randomChoice(tDraws[1], Templates4)
                       [] OTHER -> CutStructure(generateSongStructure3(tDraws[1]))
    /\ tPc' = "structured"
    /\ UNCHANGED <<tVariant, tDraws, tTracks>>

\* The tracks are generated from the structure.
ComposeTracks ==
    /\ tPc = "structured"
    /\ tTracks' = CASE tVariant = "index" -> SongTracks(tStructure, tDraws[2])
                    [] tVariant = "index_4" -> SongTracks4(tStructure, tDraws[2])
                    [] OTHER -> SongTracks3(tStructure, tDraws[2])
    /\ tPc' = "composed"
    /\ UNCHANGED <<tVariant, tDraws, tStructure>>

ComposeNext ==
    \/ (ChooseStructure /\ UNCHANGED <<mixVars, renderVars, ambientVars, chordVars, progVars, drumVars, loadVars, fxVars, songVars, playVars, retroVars, toolVars>>)
    \/ (ComposeTracks /\ UNCHANGED <<mixVars, renderVars, ambientVars, chordVars, progVars, drumVars, loadVars, fxVars, songVars, playVars, retroVars, toolVars>>)

--------------------------------------------------------------------------
(* loadSample: src/src/index_09232025_2.ts 25-35.  Rates are small        *)
(* positive integers; their products with lengths and indices are exact   *)
(* in the code's floating point, so Math.floor of the quotient is the     *)
(* integer quotient.                                                      *)

\* A length that is rounded up.
ResampledLengthRoundedUp(n, rate, target) == ((n * target) + rate - 1) \div rate

\* Math.floor(channelData.length * targetSampleRate / audioData.sampleRate)
ResampledLength(n, rate, target) == (n * target) \div rate

\* Math.floor(i * audioData.sampleRate / targetSampleRate)
SourceIndex(i, rate, target) == (i * rate) \div target

\* channelData[index]: undefined (stored as NaN) beyond the end
ChannelAt(channelData, index) ==
    IF index < Len(channelData) THEN channelData[index + 1] ELSE NaN

\* index_09232025_2.ts 30-33
Resampled(channelData, rate, target) ==
    [i \in 1..ResampledLength(Len(channelData), rate, target) |->
        ChannelAt(channelData, SourceIndex(i - 1, rate, target))]

\* The indices the loop reads.
ResampleReads(channelData, rate, target) ==
    [i \in 1..ResampledLength(Len(channelData), rate, target) |->
        SourceIndex(i - 1, rate, target)]

\* Decoded files: every sample tells its position.
DecodedFiles ==
    {[k \in 1..n |-> k] : n \in 0..MaxSamples}
        \cup {[k \in 1..n |-> n + 1 - k] : n \in 0..MaxSamples}

Rates == 1..MaxRate

LoadIdle ==
    /\ lsExists = FALSE
    /\ lsIn = <<>>
    /\ lsRate = 1
    /\ lsTargetRate = 1
    /\ lsPc = "idle"
    /\ lsReads = <<>>
    /\ lsOut = <<>>

LoadInit ==
    /\ lsExists \in BOOLEAN
    /\ lsIn \in DecodedFiles
    /\ lsRate \in Rates
    /\ lsTargetRate \in Rates
    /\ lsPc = "call"
    /\ lsReads = <<>>
    /\ lsOut = <<>>

\* index_09232025_2.ts 26: the file is missing
loadSampleThrow ==
    /\ lsPc = "call"
    /\ ~lsExists
    /\ lsPc' = "threw"
    /\ UNCHANGED <<lsExists, lsIn, lsRate, lsTargetRate, lsReads, lsOut>>

\* index_09232025_2.ts 27-34: decode, resample, return
loadSample ==
    /\ lsPc = "call"
    /\ lsExists
    /\ lsReads' = ResampleReads(lsIn, lsRate, lsTargetRate)
    /\ lsOut' = Resampled(lsIn, lsRate, lsTargetRate)
    /\ lsPc' = "returned"
    /\ UNCHANGED <<lsExists, lsIn, lsRate, lsTargetRate>>

LoadNext ==
    \/ (loadSampleThrow /\ UNCHANGED <<mixVars, renderVars, ambientVars, chordVars, progVars, drumVars, composeVars, fxVars, songVars, playVars, retroVars, toolVars>>)
    \/ (loadSample /\ UNCHANGED <<mixVars, renderVars, ambientVars, chordVars, progVars, drumVars, composeVars, fxVars, songVars, playVars, retroVars, toolVars>>)

--------------------------------------------------------------------------
(* The buffer transforms: src/src/index_09232025_2.ts 38-72 (pitchShift,   *)
(* reverseBuffer, addDelay, blendBuffers; the first three again in         *)
(* index_09232025_3.ts 40-63) and distortBuffer, index_09232025_3.ts       *)
(* 65-72.  A Float32Array is a cell of a heap; its address is the cell's   *)
(* index.  The value of sample i of a cell is samples[i] / den.            *)

Cell(samples, den) == [samples |-> samples, den |-> den]

\* new Float32Array(...) filled by the callee, or Float32Array.from(...):
\* a cell at an address nobody holds yet.
NewFloat32Array(heap, content) ==
    [heap |-> Append(heap, content), ret |-> Len(heap) + 1]

\* semitones: the values maybeMutateBuffer draws (index_09232025_2.ts 79),
\* no shift and an octave either way.
Semitones == {-12, -5, -3, -2, 0, 2, 3, 5, 12}

\* Math.pow(2, semitones / 12), in thousandths.  Exact at the octaves; the
\* others are rounded, which moves no Math.floor below for lengths up to 36.
ratio(semitones) ==
    CASE semitones = -12 -> 500
      [] semitones = -5 -> 749
      [] semitones = -3 -> 841
      [] semitones = -2 -> 891
      [] semitones = 0 -> 1000
      [] semitones = 2 -> 1122
      [] semitones = 3 -> 1189
      [] semitones = 5 -> 1335
      [] semitones = 12 -> 2000

\* A length multiplied by the ratio.
ShiftedLengthTimesRatio(length, semitones) == (length * ratio(semitones)) \div 1000

\* Math.floor(buffer.length / ratio)
ShiftedLength(length, semitones) == (length * 1000) \div ratio(semitones)

\* Math.floor(i * ratio)
ShiftedIndex(i, semitones) == (i * ratio(semitones)) \div 1000

\* The indices of buffer the loop reads.
ShiftReads(length, semitones) ==
    [i \in 1..ShiftedLength(length, semitones) |-> ShiftedIndex(i - 1, semitones)]

\* index_09232025_2.ts 38-46
pitchShift(buffer, semitones) ==
    Cell([i \in 1..ShiftedLength(Len(buffer.samples), semitones) |->
             ChannelAt(buffer.samples, ShiftedIndex(i - 1, semitones))],
         buffer.den)

\* TypedArray.prototype.reverse, on the array's own storage.
Reversed(samples) == [k \in 1..Len(samples) |-> samples[Len(samples) + 1 - k]]

\* A reversal of the argument's own storage.
reverseBufferInPlace(heap, buffer) ==
    [heap |-> [heap EXCEPT ![buffer] = Cell(Reversed(@.samples), @.den)],
     ret |-> buffer]

\* index_09232025_2.ts 48-50: Float32Array.from(buffer).reverse()
reverseBuffer(heap, buffer) ==
    LET copy == NewFloat32Array(heap, heap[buffer])
    IN  [heap |-> [copy.heap EXCEPT ![copy.ret] = Cell(Reversed(@.samples), @.den)],
         ret |-> copy.ret]

\* feedback: the default 0.3 (index_09232025_2.ts 52) and the 0.35 of
\* maybeMutateBuffer (91), as <<numerator, denominator>>.
Feedbacks == {<<3, 10>>, <<7, 20>>}

\* A delay whose later write replaces what the position held.
addDelayOverwrite(buffer, delaySamples, feedback) ==
    LET in == buffer.samples
        n == Len(in)
    IN  Cell([k \in 1..(n + delaySamples) |->
                 IF k <= n THEN in[k] * feedback[2]
                 ELSE in[k - delaySamples] * feedback[1]],
             buffer.den * feedback[2])

\* index_09232025_2.ts 52-61: out[i] += buffer[i];
\* out[i + delaySamples] += buffer[i] * feedback (the test
\* i + delaySamples < out.length never fails).
addDelay(buffer, delaySamples, feedback) ==
    LET in == buffer.samples
        n == Len(in)
    IN  Cell([k \in 1..(n + delaySamples) |->
                 (IF k <= n THEN in[k] * feedback[2] ELSE 0)
                 + (IF delaySamples < k /\ k - delaySamples <= n
                    THEN in[k - delaySamples] * feedback[1] ELSE 0)],
             buffer.den * feedback[2])

\* gain: the default 2.0 (index_09232025_3.ts 65) and 1.5, the least
\* masterFX passes (77), as <<numerator, denominator>>.
Gains == {<<2, 1>>, <<3, 2>>}

\* Math.tanh(num / den) in steps of 1 / one, cut toward zero: with x taken
\* in sixteenths, the quotient x (27 + x^2) / (27 + 9 x^2) for |x| < 3 and
\* full scale beyond.
Tanh(num, den, one) ==
    LET t == (Abs(num) * 16) \div den
        v == IF t >= 48 THEN one
             ELSE (one * t * (6912 + t * t)) \div (16 * (6912 + 9 * t * t))
    IN  IF num < 0 THEN -v ELSE v

\* index_09232025_3.ts 65-72
distortBuffer(buffer, gain) ==
    Cell([k \in 1..Len(buffer.samples) |->
             Tanh(buffer.samples[k] * gain[1], buffer.den * gain[2], buffer.den)],
         buffer.den)

\* mix: the default 0.5 (index_09232025_2.ts 63, 248) and 0.25.
Mixes == {<<1, 2>>, <<1, 4>>}

\* A blend that stops at the end of the shorter buffer.
blendBuffersShort(a, b, mix) ==
    Cell([i \in 1..Min2(Len(a.samples), Len(b.samples)) |->
             a.samples[i] * b.den * (mix[2] - mix[1]) + b.samples[i] * a.den * mix[1]],
         a.den * b.den * mix[2])

\* index_09232025_2.ts 63-72
blendBuffers(a, b, mix) ==
    LET length == Max2(Len(a.samples), Len(b.samples))
        va(i) == IF i <= Len(a.samples) THEN a.samples[i] ELSE 0
        vb(i) == IF i <= Len(b.samples) THEN b.samples[i] ELSE 0
    IN  Cell([i \in 1..length |->
                 va(i) * b.den * (mix[2] - mix[1]) + vb(i) * a.den * mix[1]],
             a.den * b.den * mix[2])

\* The buffers handed to a transform: every sample tells its position.
FxBuffers ==
    {[k \in 1..n |-> k] : n \in 0..MaxFx} \cup {[k \in 1..n |-> -k] : n \in 1..MaxFx}

\* The offsets handed to mixBuffers here.
FxOffsets == {0, 1}

FxIdle ==
    /\ fxHeap = <<>>
    /\ fxHeap0 = <<>>
    /\ fxPc = "idle"
    /\ fxCalls = <<>>

\* Two decoded buffers, in steps of 1 / Unit.
FxInit ==
    /\ fxHeap \in [1..2 -> {Cell(s, Unit) : s \in FxBuffers}]
    /\ fxHeap0 = fxHeap
    /\ fxPc = "start"
    /\ fxCalls = <<>>

\* The first call takes any buffer there is; the second takes what the
\* first returned (out = f(out), index_09232025_2.ts 78-92 and
\* index_09232025_3.ts 228-230).
FxArgs == IF fxPc = "start" THEN DOMAIN fxHeap ELSE {fxCalls[Len(fxCalls)].ret}

\* A call returns: result is the heap it leaves and the address it returns.
FxReturn(op, args, param, result, reads) ==
    /\ fxPc \in {"start", "once"}
    /\ fxHeap' = result.heap
    /\ fxCalls' = Append(fxCalls, [op |-> op, args |-> args, param |-> param,
                                   ret |-> result.ret,
                                   out |-> result.heap[result.ret],
                                   reads |-> reads])
    /\ fxPc' = IF fxPc = "start" THEN "once" ELSE "twice"
    /\ UNCHANGED fxHeap0

CallPitchShift ==
    \E buffer \in FxArgs, semitones \in Semitones :
        FxReturn("pitchShift", <<buffer>>, <<semitones>>,
                 NewFloat32Array(fxHeap, pitchShift(fxHeap[buffer], semitones)),
                 ShiftReads(Len(fxHeap[buffer].samples), semitones))

CallReverseBuffer ==
    \E buffer \in FxArgs :
        FxReturn("reverseBuffer", <<buffer>>, <<>>, reverseBuffer(fxHeap, buffer), <<>>)

CallAddDelay ==
    \E buffer \in FxArgs, delaySamples \in 0..MaxDelay, feedback \in Feedbacks :
        FxReturn("addDelay", <<buffer>>, <<delaySamples>> \o feedback,
                 NewFloat32Array(fxHeap, addDelay(fxHeap[buffer], delaySamples, feedback)),
                 <<>>)

CallDistortBuffer ==
    \E buffer \in FxArgs, gain \in Gains :
        FxReturn("distortBuffer", <<buffer>>, gain,
                 NewFloat32Array(fxHeap, distortBuffer(fxHeap[buffer], gain)), <<>>)

\* index_09232025_2.ts 248: blendBuffers(sampleBuffer, otherBuffer, 0.5)
CallBlendBuffers ==
    \E a \in FxArgs, b \in DOMAIN fxHeap, mix \in Mixes :
        FxReturn("blendBuffers", <<a, b>>, mix,
                 NewFloat32Array(fxHeap, blendBuffers(fxHeap[a], fxHeap[b], mix)), <<>>)

\* mixBuffers allocates track, accumulates and normalises it, returns it;
\* it is handed decoded buffers here, and at least one.
CallMixBuffers ==
    /\ fxPc = "start"
    /\ \E n \in 1..2 :
         \E buffers \in [1..n -> DOMAIN fxHeap], offsets \in [1..n -> FxOffsets] :
            FxReturn("mixBuffers", buffers, offsets,
                     NewFloat32Array(fxHeap,
                         mixBuffers([i \in 1..n |-> fxHeap[buffers[i]].samples], offsets)),
                     <<>>)

\* mixAudio allocates mixed, fills and normalises it, returns it; the
\* nature buffer is never empty.
CallMixAudio ==
    /\ fxPc = "start"
    /\ \E musicBuffer \in DOMAIN fxHeap, natureBuffer \in DOMAIN fxHeap,
          natureVolume \in Volumes :
            /\ Len(fxHeap[natureBuffer].samples) > 0
            /\ FxReturn("mixAudio", <<musicBuffer, natureBuffer>>, natureVolume,
                        NewFloat32Array(fxHeap,
                            mixAudio(fxHeap[musicBuffer].samples,
                                     fxHeap[natureBuffer].samples, natureVolume)),
                        <<>>)

FxNext ==
    \/ (CallPitchShift /\ UNCHANGED <<mixVars, renderVars, ambientVars, chordVars, progVars, drumVars, composeVars, loadVars, songVars, playVars, retroVars, toolVars>>)
    \/ (CallReverseBuffer /\ UNCHANGED <<mixVars, renderVars, ambientVars, chordVars, progVars, drumVars, composeVars, loadVars, songVars, playVars, retroVars, toolVars>>)
    \/ (CallAddDelay /\ UNCHANGED <<mixVars, renderVars, ambientVars, chordVars, progVars, drumVars, composeVars, loadVars, songVars, playVars, retroVars, toolVars>>)
    \/ (CallDistortBuffer /\ UNCHANGED <<mixVars, renderVars, ambientVars, chordVars, progVars, drumVars, composeVars, loadVars, songVars, playVars, retroVars, toolVars>>)
    \/ (CallBlendBuffers /\ UNCHANGED <<mixVars, renderVars, ambientVars, chordVars, progVars, drumVars, composeVars, loadVars, songVars, playVars, retroVars, toolVars>>)
    \/ (CallMixBuffers /\ UNCHANGED <<mixVars, renderVars, ambientVars, chordVars, progVars, drumVars, composeVars, loadVars, songVars, playVars, retroVars, toolVars>>)
    \/ (CallMixAudio /\ UNCHANGED <<mixVars, renderVars, ambientVars, chordVars, progVars, drumVars, composeVars, loadVars, songVars, playVars, retroVars, toolVars>>)

--------------------------------------------------------------------------
(* generateSongMIDI: src/src/index.ts 189-210, statement by statement,     *)
(* run twice.  The function is synchronous, so the second run starts       *)
(* after the first has returned.  A run takes its random numbers from its  *)
(* stream in the order the code calls Math.random().                       *)

\* Object.values(SCALES), index.ts 31-35: cMinor, aMinor, cDorian
ScaleValues ==
    << <<"C", "D", "D#", "F", "G", "G#", "A#">>,
       <<"A", "B", "C", "D", "E", "F", "G">>,
       <<"C", "D", "D#", "F", "G", "A", "A#">> >>

\* index.ts 44-46
LEAD_SYNTHS == <<80, 81, 82, 85>>
BASS_SYNTHS == <<38, 39>>
PAD_SYNTHS == <<88, 89, 90>>

\* The n-th value of a stream that repeats its pattern.
Draw(stream, n) == stream[((n - 1) % Len(stream)) + 1]

\* A generator that is seeded by the clock.
RandomByClock(run, n) == Draw(gStream[run], n + gClock[run])

\* What the n-th call of Math.random() of a run returns.
Random(run, n) == Draw(gStream[run], n)

\* index.ts 172-185: the chord of every measure, the outro left out
PadNotes(structure, chords) ==
    Flatten([i \in 1..Len(structure) |->
        IF structure[i].name = "outro" THEN <<>>
        ELSE LET sectionChords == IF structure[i].name = "chorus"
                                  THEN chords.chorus ELSE chords.verse
             IN  [m \in 1..structure[i].length |->
                     sectionChords[((m - 1) % Len(sectionChords)) + 1]]])

\* index.ts 139-152: the pattern and the root note, at octave 2, of every
\* measure of a verse or a chorus
BassNotes(structure, chords) ==
    Flatten([i \in 1..Len(structure) |->
        IF structure[i].name \in {"intro", "outro"} THEN <<>>
        ELSE LET sectionChords == IF structure[i].name = "chorus"
                                  THEN chords.chorus ELSE chords.verse
                 pattern == IF structure[i].name = "chorus"
                            THEN "eighth_notes" ELSE "syncopated"
             IN  [m \in 1..structure[i].length |->
                     [pattern  |-> pattern,
                      rootNote |-> [pitch  |-> sectionChords[((m - 1) % Len(sectionChords)) + 1][1].pitch,
                                    octave |-> 2]]]])

\* The measures of the chorus sections, in the order the arpeggio loop
\* visits them: <<section, measure>>.
ChorusMeasures(structure) ==
    Flatten([i \in 1..Len(structure) |->
        IF structure[i].name # "chorus" THEN <<>>
        ELSE [m \in 1..structure[i].length |-> <<i, m>>]])

\* index.ts 153-156: the order in which a pattern plays the chord
ArpPattern(name, chord) ==
    IF name = "up" THEN <<chord[1], chord[2], chord[3], chord[2]>>
    ELSE <<chord[3], chord[2], chord[1], chord[2]>>

\* index.ts 158-171: per measure of a chorus one draw of the pattern, which
\* is played four times; first is the number of draws made before
ArpNotes(structure, chords, run, first) ==
    LET measures == ChorusMeasures(structure)
    IN  Flatten([k \in 1..Len(measures) |->
            LET chord == chords.chorus[((measures[k][2] - 1) % Len(chords.chorus)) + 1]
                pattern == randomChoice(Random(run, first + k), <<"up", "down">>)
                notes == ArpPattern(pattern, chord)
            IN  notes \o notes \o notes \o notes])

\* The pattern of a stream, and what the clock shows at each run.
Streams == [1..2 -> ChoiceDraws]
Clocks == {<<0, 0>>, <<0, 1>>}

NoSong ==
    [structure |-> <<>>, scale |-> <<>>, verseProgression |-> "",
     chorusProgression |-> "", leadSynth |-> 0, bassSynth |-> 0, padSynth |-> 0,
     tracks |-> <<>>, midiFile |-> <<>>, used |-> 0]

SongIdle ==
    /\ gStream = <<>>
    /\ gClock = <<>>
    /\ gRun = 0
    /\ gPc = "idle"
    /\ gSong = <<>>

SongInit ==
    /\ gStream \in [1..2 -> Streams]
    /\ gClock \in Clocks
    /\ gRun = 1
    /\ gPc = "structure"
    /\ gSong = <<NoSong, NoSong>>

\* A statement of the run in progress that makes one call of randomChoice.
Chooses(at, field, arr, then) ==
    /\ gRun \in {1, 2}
    /\ gPc = at
    /\ gSong' = [gSong EXCEPT ![gRun] =
                    [[@ EXCEPT !.used = @ + 1] EXCEPT
                        ![field] = randomChoice(Random(gRun, gSong[gRun].used + 1), arr)]]
    /\ gPc' = then
    /\ UNCHANGED <<gStream, gClock, gRun>>

\* index.ts 190
StructureChosen == Chooses("structure", "structure", TemplatesMidi, "scale")

\* index.ts 191
ScaleChosen == Chooses("scale", "scale", ScaleValues, "verse")

\* index.ts 192
VerseChosen == Chooses("verse", "verseProgression", ProgressionKeys, "chorus")

\* index.ts 193
ChorusChosen ==
    Chooses("chorus", "chorusProgression",
            FilterOut(ProgressionKeys, gSong[gRun].verseProgression), "lead")

\* index.ts 194
LeadChosen == Chooses("lead", "leadSynth", LEAD_SYNTHS, "bass")

\* index.ts 195
BassChosen == Chooses("bass", "bassSynth", BASS_SYNTHS, "pad")

\* index.ts 196
PadChosen == Chooses("pad", "padSynth", PAD_SYNTHS, "tracks")

\* index.ts 198-202: the chords and the four tracks
TracksGenerated ==
    /\ gRun \in {1, 2}
    /\ gPc = "tracks"
    /\ LET song == gSong[gRun]
           chords == [verse  |-> getChords(ProgressionOf(song.verseProgression), song.scale, 4),
                      chorus |-> getChords(ProgressionOf(song.chorusProgression), song.scale, 4)]
       IN  gSong' = [gSong EXCEPT ![gRun] =
               [[@ EXCEPT !.used = @ + Len(ChorusMeasures(song.structure))] EXCEPT
                   !.tracks =
                     << generateDrumTrack("index", song.structure, 0),
                        [instrument |-> song.padSynth,
                         notes |-> PadNotes(song.structure, chords)],
                        [instrument |-> song.bassSynth,
                         notes |-> BassNotes(song.structure, chords)],
                        [instrument |-> song.leadSynth,
                         notes |-> ArpNotes(song.structure, chords, gRun, song.used)] >>]]
    /\ gPc' = "write"
    /\ UNCHANGED <<gStream, gClock, gRun>>

\* index.ts 204-209: the file is named after the clock; the run returns
MidiWritten ==
    /\ gRun \in {1, 2}
    /\ gPc = "write"
    /\ gSong' = [gSong EXCEPT ![gRun].midiFile = <<"ambient_pro_", gClock[gRun], ".mid">>]
    /\ gRun' = gRun + 1
    /\ gPc' = IF gRun = 1 THEN "structure" ELSE "done"
    /\ UNCHANGED <<gStream, gClock>>

SongNext ==
    \/ (StructureChosen /\ UNCHANGED <<mixVars, renderVars, ambientVars, chordVars, progVars, drumVars, composeVars, loadVars, fxVars, playVars, retroVars, toolVars>>)
    \/ (ScaleChosen /\ UNCHANGED <<mixVars, renderVars, ambientVars, chordVars, progVars, drumVars, composeVars, loadVars, fxVars, playVars, retroVars, toolVars>>)
    \/ (VerseChosen /\ UNCHANGED <<mixVars, renderVars, ambientVars, chordVars, progVars, drumVars, composeVars, loadVars, fxVars, playVars, retroVars, toolVars>>)
    \/ (ChorusChosen /\ UNCHANGED <<mixVars, renderVars, ambientVars, chordVars, progVars, drumVars, composeVars, loadVars, fxVars, playVars, retroVars, toolVars>>)
    \/ (LeadChosen /\ UNCHANGED <<mixVars, renderVars, ambientVars, chordVars, progVars, drumVars, composeVars, loadVars, fxVars, playVars, retroVars, toolVars>>)
    \/ (BassChosen /\ UNCHANGED <<mixVars, renderVars, ambientVars, chordVars, progVars, drumVars, composeVars, loadVars, fxVars, playVars, retroVars, toolVars>>)
    \/ (PadChosen /\ UNCHANGED <<mixVars, renderVars, ambientVars, chordVars, progVars, drumVars, composeVars, loadVars, fxVars, playVars, retroVars, toolVars>>)
    \/ (TracksGenerated /\ UNCHANGED <<mixVars, renderVars, ambientVars, chordVars, progVars, drumVars, composeVars, loadVars, fxVars, playVars, retroVars, toolVars>>)
    \/ (MidiWritten /\ UNCHANGED <<mixVars, renderVars, ambientVars, chordVars, progVars, drumVars, composeVars, loadVars, fxVars, playVars, retroVars, toolVars>>)

--------------------------------------------------------------------------
(* playWav with a tracked player, src/unnamed/part_007.  A player is       *)
(* "alive" while its process runs, "dead" once the process has ended and   *)
(* its 'exit' event waits in the event loop, "gone" once the listener has  *)
(* run.  The number of a player stands for its handle and for its PID.     *)
(* SIGKILL ends a process at once.                                         *)

PlayVariants == {"handle", "pid"}

\* child.kill('SIGKILL') or `kill -9 pid`: nothing happens to a process
\* that has ended already
Killed(players, p) ==
    IF p # 0 /\ players[p] = "alive" THEN [players EXCEPT ![p] = "dead"] ELSE players

PlayIdle ==
    /\ wVariant = "none"
    /\ wPlayers = <<>>
    /\ wCurrent = 0
    /\ wStops = <<>>

PlayInit ==
    /\ wVariant \in PlayVariants
    /\ wPlayers = <<>>
    /\ wCurrent = 0
    /\ wStops = <<>>

\* part_007 459-476: kill the tracked player, spawn, track the new one
playWavHandle ==
    /\ wVariant = "handle"
    /\ Len(wPlayers) < MaxPlayers
    /\ wPlayers' = Append(Killed(wPlayers, wCurrent), "alive")
    /\ wCurrent' = Len(wPlayers) + 1
    /\ UNCHANGED <<wVariant, wStops>>

\* part_007 471-475: the 'exit' listener of any player of this variant
exitListenerHandle ==
    /\ wVariant = "handle"
    /\ \E p \in DOMAIN wPlayers :
          /\ wPlayers[p] = "dead"
          /\ wPlayers' = [wPlayers EXCEPT ![p] = "gone"]
          /\ wCurrent' = 0
    /\ UNCHANGED <<wVariant, wStops>>

\* part_007 991-1002 with 1011-1012: playWav while no PID is tracked;
\* stopExistingPlayer returns at once and the player is spawned
playWavNothingToStop ==
    /\ wVariant = "pid"
    /\ Len(wPlayers) + Len(wStops) < MaxPlayers
    /\ wCurrent = 0
    /\ wPlayers' = Append(wPlayers, "alive")
    /\ wCurrent' = Len(wPlayers) + 1
    /\ UNCHANGED <<wVariant, wStops>>

\* part_007 1012-1019: a PID is tracked; `kill -9` is started for it and
\* playWav is suspended until the callback of exec
stopExistingPlayerStart ==
    /\ wVariant = "pid"
    /\ Len(wPlayers) + Len(wStops) < MaxPlayers
    /\ wCurrent # 0
    /\ wStops' = Append(wStops, wCurrent)
    /\ UNCHANGED <<wVariant, wPlayers, wCurrent>>

\* part_007 1019-1031 and 995-1002: the callback of one of the kill
\* commands; currentPlayerPid = null, then playWav goes on to spawn the
\* player and to track its PID
stopExistingPlayerDone ==
    /\ wVariant = "pid"
    /\ \E k \in DOMAIN wStops :
          /\ wPlayers' = Append(Killed(wPlayers, wStops[k]), "alive")
          /\ wStops' = [j \in 1..(Len(wStops) - 1) |->
                           IF j < k THEN wStops[j] ELSE wStops[j + 1]]
    /\ wCurrent' = Len(wPlayers) + 1
    /\ UNCHANGED wVariant

\* part_007 1002-1008: the 'exit' listener of a player of this variant
exitListenerPid ==
    /\ wVariant = "pid"
    /\ \E p \in DOMAIN wPlayers :
          /\ wPlayers[p] = "dead"
          /\ wPlayers' = [wPlayers EXCEPT ![p] = "gone"]
          /\ wCurrent' = IF p = wCurrent THEN 0 ELSE wCurrent
    /\ UNCHANGED <<wVariant, wStops>>

\* The file has been played to its end.
playerEnds ==
    /\ \E p \in DOMAIN wPlayers :
          /\ wPlayers[p] = "alive"
          /\ wPlayers' = [wPlayers EXCEPT ![p] = "dead"]
    /\ UNCHANGED <<wVariant, wCurrent, wStops>>

PlayNext ==
    \/ (playWavHandle /\ UNCHANGED <<mixVars, renderVars, ambientVars, chordVars, progVars, drumVars, composeVars, loadVars, fxVars, songVars, retroVars, toolVars>>)
    \/ (exitListenerHandle /\ UNCHANGED <<mixVars, renderVars, ambientVars, chordVars, progVars, drumVars, composeVars, loadVars, fxVars, songVars, retroVars, toolVars>>)
    \/ (playWavNothingToStop /\ UNCHANGED <<mixVars, renderVars, ambientVars, chordVars, progVars, drumVars, composeVars, loadVars, fxVars, songVars, retroVars, toolVars>>)
    \/ (stopExistingPlayerStart /\ UNCHANGED <<mixVars, renderVars, ambientVars, chordVars, progVars, drumVars, composeVars, loadVars, fxVars, songVars, retroVars, toolVars>>)
    \/ (stopExistingPlayerDone /\ UNCHANGED <<mixVars, renderVars, ambientVars, chordVars, progVars, drumVars, composeVars, loadVars, fxVars, songVars, retroVars, toolVars>>)
    \/ (exitListenerPid /\ UNCHANGED <<mixVars, renderVars, ambientVars, chordVars, progVars, drumVars, composeVars, loadVars, fxVars, songVars, retroVars, toolVars>>)
    \/ (playerEnds /\ UNCHANGED <<mixVars, renderVars, ambientVars, chordVars, progVars, drumVars, composeVars, loadVars, fxVars, songVars, retroVars, toolVars>>)

--------------------------------------------------------------------------
(* play_retro_music: src/unnamed/part_001 85-175 and src/unnamed/part_004  *)
(* 70-128, one invocation.                                                 *)

RetroVariants == {"part_001", "part_004"}

\* The tone argument is any string.
RetroTones == {"happy", "dark", "mysterious", "calm"}

\* part_001 90-96: tones[tone] || tones["mysterious"]
baseNotes(tone) ==
    CASE tone = "happy" -> <<262, 330, 392, 494>>
      [] tone = "dark" -> <<131, 156, 196, 233>>
      [] OTHER -> <<262, 311, 370, 440>>

\* The steps of an invocation that can throw: the encoder and the write
\* of the file.
RetroFaults == SUBSET {"encode", "write"}

RetroIdle ==
    /\ qVariant = "none"
    /\ qTone = ""
    /\ qFaults = {}
    /\ qPc = "idle"
    /\ qNotes = <<>>
    /\ qWritten = FALSE
    /\ qPlayers = <<>>
    /\ qResponse = "none"

RetroInit ==
    /\ qVariant \in RetroVariants
    /\ qTone \in RetroTones
    /\ qFaults \in RetroFaults
    /\ qPc = "start"
    /\ qNotes = <<>>
    /\ qWritten = FALSE
    /\ qPlayers = <<>>
    /\ qResponse = "none"

\* part_001 86-129: the notes are chosen and summed into trackBuffer
synthesizeTrack ==
    /\ qPc = "start"
    /\ qNotes' = baseNotes(qTone)
    /\ qPc' = "synthesized"
    /\ UNCHANGED <<qVariant, qTone, qFaults, qWritten, qPlayers, qResponse>>

\* part_001 131-132: await WavEncoder.encode(audioData)
encodeTrack ==
    /\ qPc = "synthesized"
    /\ qPc' = IF "encode" \in qFaults THEN "threw" ELSE "encoded"
    /\ UNCHANGED <<qVariant, qTone, qFaults, qNotes, qWritten, qPlayers, qResponse>>

\* part_001 134-135: fs.writeFileSync(filePath, ...)
writeTrack ==
    /\ qPc = "encoded"
    /\ IF "write" \in qFaults
       THEN qPc' = "threw" /\ qWritten' = qWritten
       ELSE qPc' = "written" /\ qWritten' = TRUE
    /\ UNCHANGED <<qVariant, qTone, qFaults, qNotes, qPlayers, qResponse>>

\* part_001 137-142: synthesizeAndPlayRetroTrack spawns the player and
\* returns filePath
spawnInSynthesize ==
    /\ qPc = "written"
    /\ qPlayers' = Append(qPlayers, "synthesizeAndPlayRetroTrack")
    /\ qPc' = "synthesize_returned"
    /\ UNCHANGED <<qVariant, qTone, qFaults, qNotes, qWritten, qResponse>>

\* part_001 157-160: the handler spawns the player for filePath
spawnInHandler ==
    /\ qPc = "synthesize_returned"
    /\ qPlayers' = Append(qPlayers, "handler")
    /\ qPc' = "played"
    /\ UNCHANGED <<qVariant, qTone, qFaults, qNotes, qWritten, qResponse>>

\* part_001 162-166: the success text
returnPlaying ==
    /\ qPc = "played"
    /\ qResponse' = "success"
    /\ qPc' = "done"
    /\ UNCHANGED <<qVariant, qTone, qFaults, qNotes, qWritten, qPlayers>>

\* part_001 167-173: the catch block returns the failure text
returnFailed ==
    /\ qPc = "threw"
    /\ qResponse' = "failure"
    /\ qPc' = "done"
    /\ UNCHANGED <<qVariant, qTone, qFaults, qNotes, qWritten, qPlayers>>

RetroNext ==
    \/ (synthesizeTrack /\ UNCHANGED <<mixVars, renderVars, ambientVars, chordVars, progVars, drumVars, composeVars, loadVars, fxVars, songVars, playVars, toolVars>>)
    \/ (encodeTrack /\ UNCHANGED <<mixVars, renderVars, ambientVars, chordVars, progVars, drumVars, composeVars, loadVars, fxVars, songVars, playVars, toolVars>>)
    \/ (writeTrack /\ UNCHANGED <<mixVars, renderVars, ambientVars, chordVars, progVars, drumVars, composeVars, loadVars, fxVars, songVars, playVars, toolVars>>)
    \/ (spawnInSynthesize /\ UNCHANGED <<mixVars, renderVars, ambientVars, chordVars, progVars, drumVars, composeVars, loadVars, fxVars, songVars, playVars, toolVars>>)
    \/ (spawnInHandler /\ UNCHANGED <<mixVars, renderVars, ambientVars, chordVars, progVars, drumVars, composeVars, loadVars, fxVars, songVars, playVars, toolVars>>)
    \/ (returnPlaying /\ UNCHANGED <<mixVars, renderVars, ambientVars, chordVars, progVars, drumVars, composeVars, loadVars, fxVars, songVars, playVars, toolVars>>)
    \/ (returnFailed /\ UNCHANGED <<mixVars, renderVars, ambientVars, chordVars, progVars, drumVars, composeVars, loadVars, fxVars, songVars, playVars, toolVars>>)

--------------------------------------------------------------------------
(* The two tools synthesize_music and play_music: src/unnamed/part_002     *)
(* 63-109 and src/unnamed/part_007 66-122.  An invocation of               *)
(* synthesize_music is suspended while the track is rendered and encoded,  *)
(* and other invocations run meanwhile.                                    *)

ToolVariants == {"part_002", "part_007"}

\* The tones the invocations are made with.
ToolTones == {"happy", "dark"}

\* `retro_${tone}.wav`
TrackFile(tone) == <<"retro_", tone, ".wav">>

\* The names lastTrack can hold: its first value and the files of the tones.
TrackFiles == {<<>>, <<"retro.wav">>} \cup {TrackFile(tone) : tone \in ToolTones}

\* let lastTrack = "" (part_002 63), let lastTrack = "retro.wav" (part_007 66)
FirstTrack(variant) == IF variant = "part_002" THEN <<>> ELSE <<"retro.wav">>

ToolsIdle ==
    /\ uVariant = "none"
    /\ uLastTrack = <<>>
    /\ uFiles = <<>>
    /\ uSynths = <<>>
    /\ uLastDone = 0
    /\ uPlays = <<>>

\* The server has started in a directory that holds none of the files.
ToolsInit ==
    /\ uVariant \in ToolVariants
    /\ uLastTrack = FirstTrack(uVariant)
    /\ uFiles = [f \in TrackFiles |-> 0]
    /\ uSynths = <<>>
    /\ uLastDone = 0
    /\ uPlays = <<>>

\* synthesize_music is invoked, up to its await: part_007 76-77 assigns
\* lastTrack before the track is rendered, part_002 74 after
synthesizeStart ==
    /\ Len(uSynths) < MaxSynths
    /\ \E tone \in ToolTones :
          /\ uSynths' = Append(uSynths, [tone |-> tone, pc |-> "rendering"])
          /\ uLastTrack' = IF uVariant = "part_007" THEN TrackFile(tone) ELSE uLastTrack
    /\ UNCHANGED <<uVariant, uFiles, uLastDone, uPlays>>

\* The track is rendered: synthesizeRetroTrack writes the file and returns
\* (part_002 51-59, part_007 60-62) and the handler returns its text
synthesizeDone ==
    /\ \E n \in DOMAIN uSynths :
          /\ uSynths[n].pc = "rendering"
          /\ uSynths' = [uSynths EXCEPT ![n].pc = "done"]
          /\ uFiles' = [uFiles EXCEPT ![TrackFile(uSynths[n].tone)] = n]
          /\ uLastTrack' = IF uVariant = "part_002"
                           THEN TrackFile(uSynths[n].tone) ELSE uLastTrack
          /\ uLastDone' = n
    /\ UNCHANGED <<uVariant, uPlays>>

\* Rendering or encoding throws: nothing is written; the handler has no
\* catch block
synthesizeThrows ==
    /\ \E n \in DOMAIN uSynths :
          /\ uSynths[n].pc = "rendering"
          /\ uSynths' = [uSynths EXCEPT ![n].pc = "threw"]
    /\ UNCHANGED <<uVariant, uLastTrack, uFiles, uLastDone, uPlays>>

\* part_002 91: !lastTrack || !fs.existsSync(lastTrack); part_007 96:
\* !fs.existsSync(lastTrack)
NoTrackYet ==
    IF uVariant = "part_002"
    THEN uLastTrack = <<>> \/ uFiles[uLastTrack] = 0
    ELSE uFiles[uLastTrack] = 0

\* play_music is invoked: the no-track text (part_002 91-97, part_007
\* 96-105), or the player is started on lastTrack (part_002 99-108,
\* part_007 107-119)
playMusic ==
    /\ Len(uPlays) < MaxPlays
    /\ uPlays' = Append(uPlays,
          IF NoTrackYet
          THEN [player |-> FALSE, track |-> 0, lastDone |-> uLastDone,
                response |-> "no track"]
          ELSE [player |-> TRUE, track |-> uFiles[uLastTrack], lastDone |-> uLastDone,
                response |-> "playing"])
    /\ UNCHANGED <<uVariant, uLastTrack, uFiles, uSynths, uLastDone>>

ToolsNext ==
    \/ (synthesizeStart /\ UNCHANGED <<mixVars, renderVars, ambientVars, chordVars, progVars, drumVars, composeVars, loadVars, fxVars, songVars, playVars, retroVars>>)
    \/ (synthesizeDone /\ UNCHANGED <<mixVars, renderVars, ambientVars, chordVars, progVars, drumVars, composeVars, loadVars, fxVars, songVars, playVars, retroVars>>)
    \/ (synthesizeThrows /\ UNCHANGED <<mixVars, renderVars, ambientVars, chordVars, progVars, drumVars, composeVars, loadVars, fxVars, songVars, playVars, retroVars>>)
    \/ (playMusic /\ UNCHANGED <<mixVars, renderVars, ambientVars, chordVars, progVars, drumVars, composeVars, loadVars, fxVars, songVars, playVars, retroVars>>)

--------------------------------------------------------------------------
(* Specification SpecMix: one call of mixBuffers or of mixAudio on inputs   *)
(* drawn from the bounded sets.                                             *)

MixIdle ==
    /\ mixOp = "none"
    /\ mixBuffersIn = <<>>
    /\ mixOffsetsIn = <<>>
    /\ mixVolume = <<1, 1>>
    /\ mixPc = "idle"
    /\ mixRaw = <<>>
    /\ mixResult = NoBuffer

MixInit ==
    /\ mixPc = "call"
    /\ mixRaw = <<>>
    /\ mixResult = NoBuffer
    /\ \/ /\ mixOp = "mixBuffers"
          /\ mixBuffersIn \in SeqsUpTo(MixBufferSet, MaxBuffers)
          /\ mixOffsetsIn \in [1..Len(mixBuffersIn) -> 0..MaxOffset]
          /\ mixVolume = <<1, 1>>
       \/ /\ mixOp = "mixAudio"
          \* the decoded nature sample is never empty (i % 0 is NaN)
          /\ mixBuffersIn \in [1..2 -> BufferSet]
          /\ Len(mixBuffersIn[2]) > 0
          /\ mixOffsetsIn = <<>>
          /\ mixVolume \in Volumes

MixBuffersReturn ==
    /\ mixPc = "call"
    /\ mixOp = "mixBuffers"
    /\ ~mixBuffersThrows(mixBuffersIn, mixOffsetsIn)
    /\ mixRaw' = MixAccumulator(mixBuffersIn, mixOffsetsIn)
    /\ mixResult' = mixBuffers(mixBuffersIn, mixOffsetsIn)
    /\ mixPc' = "returned"
    /\ UNCHANGED <<mixOp, mixBuffersIn, mixOffsetsIn, mixVolume>>

MixBuffersThrow ==
    /\ mixPc = "call"
    /\ mixOp = "mixBuffers"
    /\ mixBuffersThrows(mixBuffersIn, mixOffsetsIn)
    /\ mixPc' = "threw"
    /\ UNCHANGED <<mixOp, mixBuffersIn, mixOffsetsIn, mixVolume, mixRaw, mixResult>>

MixAudioReturn ==
    /\ mixPc = "call"
    /\ mixOp = "mixAudio"
    /\ mixRaw' = MixAudioAccumulator(mixBuffersIn[1], mixBuffersIn[2], mixVolume)
    /\ mixResult' = mixAudio(mixBuffersIn[1], mixBuffersIn[2], mixVolume)
    /\ mixPc' = "returned"
    /\ UNCHANGED <<mixOp, mixBuffersIn, mixOffsetsIn, mixVolume>>

MixNext ==
    \/ (MixBuffersReturn /\ UNCHANGED <<renderVars, ambientVars, chordVars, progVars, drumVars, composeVars, loadVars, fxVars, songVars, playVars, retroVars, toolVars>>)
    \/ (MixBuffersThrow /\ UNCHANGED <<renderVars, ambientVars, chordVars, progVars, drumVars, composeVars, loadVars, fxVars, songVars, playVars, retroVars, toolVars>>)
    \/ (MixAudioReturn /\ UNCHANGED <<renderVars, ambientVars, chordVars, progVars, drumVars, composeVars, loadVars, fxVars, songVars, playVars, retroVars, toolVars>>)

InitMix == MixInit /\ RenderIdle /\ AmbientIdle /\ ChordsIdle /\ ProgIdle /\ DrumsIdle /\ ComposeIdle /\ LoadIdle /\ FxIdle /\ SongIdle /\ PlayIdle /\ RetroIdle /\ ToolsIdle

SpecMix == InitMix /\ [][MixNext]_vars

(* Specification SpecRender: one invocation of a sample-based render tool. *)

InitRender == RenderInit /\ MixIdle /\ AmbientIdle /\ ChordsIdle /\ ProgIdle /\ DrumsIdle /\ ComposeIdle /\ LoadIdle /\ FxIdle /\ SongIdle /\ PlayIdle /\ RetroIdle /\ ToolsIdle

SpecRender == InitRender /\ [][RenderNext]_vars

(* Specification SpecAmbient: one invocation of play_ambient_retrowave_song. *)

InitAmbient == AmbientInit /\ MixIdle /\ RenderIdle /\ ChordsIdle /\ ProgIdle /\ DrumsIdle /\ ComposeIdle /\ LoadIdle /\ FxIdle /\ SongIdle /\ PlayIdle /\ RetroIdle /\ ToolsIdle

SpecAmbient == InitAmbient /\ [][AmbientNext]_vars

(* Specification SpecAmbientLive: the same invocation with the scheduling  *)
(* Node gives it.  Every step of the handler itself runs once it is due:   *)
(* the synchronous statements run to completion, and the file reads,       *)
(* decoding and encoding it awaits settle.  The 'close' event of timidity  *)
(* comes from a process outside the server and nothing in the code bounds  *)
(* the wait for it (index.ts 212-223 sets no timer), so it gets no         *)
(* fairness.                                                               *)

AmbientHandlerStep ==
    ((\/ generateSongMIDI
      \/ midiToWavSpawn
      \/ selectNatureSound
      \/ loadSynthWav
      \/ loadNatureWav
      \/ mixAudioCall
      \/ encodeFinal
      \/ writeFinalWav
      \/ playWavAndReturn
      \/ catchAndReturnFailure)
     /\ UNCHANGED <<mixVars, renderVars, chordVars, progVars, drumVars, composeVars, loadVars, fxVars, songVars, playVars, retroVars, toolVars>>)

SpecAmbientLive == InitAmbient /\ [][AmbientNext]_vars /\ WF_vars(AmbientHandlerStep)

(* Specification SpecChords: one call of a chord resolver. *)

InitChords == ChordsInit /\ MixIdle /\ RenderIdle /\ AmbientIdle /\ ProgIdle /\ DrumsIdle /\ ComposeIdle /\ LoadIdle /\ FxIdle /\ SongIdle /\ PlayIdle /\ RetroIdle /\ ToolsIdle

SpecChords == InitChords /\ [][ChordsNext]_vars

(* Specification SpecProgressions: one choice of the two progressions. *)

InitProgressions == ProgInit /\ MixIdle /\ RenderIdle /\ AmbientIdle /\ ChordsIdle /\ DrumsIdle /\ ComposeIdle /\ LoadIdle /\ FxIdle /\ SongIdle /\ PlayIdle /\ RetroIdle /\ ToolsIdle

SpecProgressions == InitProgressions /\ [][ProgNext]_vars

(* Specification SpecDrums: one call of generateDrumTrack. *)

InitDrums == DrumsInit /\ MixIdle /\ RenderIdle /\ AmbientIdle /\ ChordsIdle /\ ProgIdle /\ ComposeIdle /\ LoadIdle /\ FxIdle /\ SongIdle /\ PlayIdle /\ RetroIdle /\ ToolsIdle

SpecDrums == InitDrums /\ [][DrumsNext]_vars

(* Specification SpecCompose: one composition of the tracks of a song. *)

InitCompose == ComposeInit /\ MixIdle /\ RenderIdle /\ AmbientIdle /\ ChordsIdle /\ ProgIdle /\ DrumsIdle /\ LoadIdle /\ FxIdle /\ SongIdle /\ PlayIdle /\ RetroIdle /\ ToolsIdle

SpecCompose == InitCompose /\ [][ComposeNext]_vars

(* Specification SpecLoad: one call of loadSample. *)

InitLoad == LoadInit /\ MixIdle /\ RenderIdle /\ AmbientIdle /\ ChordsIdle /\ ProgIdle /\ DrumsIdle /\ ComposeIdle /\ FxIdle /\ SongIdle /\ PlayIdle /\ RetroIdle /\ ToolsIdle

SpecLoad == InitLoad /\ [][LoadNext]_vars

(* Specification SpecFx: up to two calls of the buffer transforms. *)

InitFx == FxInit /\ MixIdle /\ RenderIdle /\ AmbientIdle /\ ChordsIdle /\ ProgIdle /\ DrumsIdle /\ ComposeIdle /\ LoadIdle /\ SongIdle /\ PlayIdle /\ RetroIdle /\ ToolsIdle

SpecFx == InitFx /\ [][FxNext]_vars

(* Specification SpecSong: two runs of generateSongMIDI. *)

InitSong == SongInit /\ MixIdle /\ RenderIdle /\ AmbientIdle /\ ChordsIdle /\ ProgIdle /\ DrumsIdle /\ ComposeIdle /\ LoadIdle /\ FxIdle /\ PlayIdle /\ RetroIdle /\ ToolsIdle

SpecSong == InitSong /\ [][SongNext]_vars

(* Specification SpecPlay: calls of playWav and the events of its players. *)

InitPlay == PlayInit /\ MixIdle /\ RenderIdle /\ AmbientIdle /\ ChordsIdle /\ ProgIdle /\ DrumsIdle /\ ComposeIdle /\ LoadIdle /\ FxIdle /\ SongIdle /\ RetroIdle /\ ToolsIdle

SpecPlay == InitPlay /\ [][PlayNext]_vars

(* Specification SpecRetro: one invocation of play_retro_music. *)

InitRetro == RetroInit /\ MixIdle /\ RenderIdle /\ AmbientIdle /\ ChordsIdle /\ ProgIdle /\ DrumsIdle /\ ComposeIdle /\ LoadIdle /\ FxIdle /\ SongIdle /\ PlayIdle /\ ToolsIdle

SpecRetro == InitRetro /\ [][RetroNext]_vars

(* Specification SpecTools: invocations of synthesize_music and play_music. *)

InitTools == ToolsInit /\ MixIdle /\ RenderIdle /\ AmbientIdle /\ ChordsIdle /\ ProgIdle /\ DrumsIdle /\ ComposeIdle /\ LoadIdle /\ FxIdle /\ SongIdle /\ PlayIdle /\ RetroIdle

SpecTools == InitTools /\ [][ToolsNext]_vars

--------------------------------------------------------------------------
(* Properties of the audio buffer engine (SpecMix) *)

RECURSIVE SumOver(_, _)
SumOver(f, S) ==
    IF S = {} THEN 0
    ELSE LET x == CHOOSE y \in S : TRUE
         IN  f[x] + SumOver(f, S \ {x})

\* The buffers that cover the 0-based position k, and what they add there.
Covering(k) ==
    {i \in 1..Len(mixBuffersIn) :
        mixOffsetsIn[i] <= k /\ k < mixOffsetsIn[i] + Len(mixBuffersIn[i])}

CoverSum(k) ==
    SumOver([i \in Covering(k) |-> mixBuffersIn[i][k - mixOffsetsIn[i] + 1]],
            Covering(k))

MaxEnd ==
    LET ends == {mixOffsetsIn[i] + Len(mixBuffersIn[i]) : i \in 1..Len(mixBuffersIn)}
    IN  CHOOSE m \in ends : \A e \in ends : e <= m

\* Amplitude 1.0 in the steps of the accumulator of the call.
MixOne == IF mixOp = "mixAudio" THEN Unit * mixVolume[2] ELSE Unit

\* C1: before normalisation mixBuffers' track has length max(offsets[i] +
\* len(buffers[i])), its sample k is the sum of buffers[i][k - offsets[i]] over
\* the buffers covering k (0 where none does), and every write index lies
\* inside the track.
C1_MixIsOffsetSum ==
    (mixOp = "mixBuffers" /\ mixPc = "returned") =>
        /\ Len(mixRaw) = MaxEnd
        /\ \A k \in 0..(Len(mixRaw) - 1) : mixRaw[k + 1] = CoverSum(k)
        /\ \A w \in WriteIndices(mixBuffersIn, mixOffsetsIn) : w < Len(mixRaw)
        /\ Len(mixResult.samples) = Len(mixRaw)

\* Two buffers of length 2 at offsets 0 and 1: A alone, A+B, B's tail.
C1_Witness ==
    /\ mixOp = "mixBuffers"
    /\ mixPc = "returned"
    /\ Len(mixBuffersIn) = 2
    /\ Len(mixBuffersIn[1]) = 2
    /\ Len(mixBuffersIn[2]) = 2
    /\ mixOffsetsIn = <<0, 1>>
    /\ Len(mixRaw) = 3
    /\ mixRaw[2] = mixBuffersIn[1][2] + mixBuffersIn[2][1]

\* C2: the buffer mixBuffers or mixAudio returns has peak amplitude at most
\* 1.0; when the accumulated peak exceeds 1.0 every sample is divided by that
\* peak.
C2_PeakAtMostOne ==
    mixPc = "returned" =>
        /\ \A i \in 1..Len(mixResult.samples) :
              Abs(mixResult.samples[i]) <= mixResult.den
        /\ Peak(mixRaw) > MixOne =>
              /\ mixResult.samples = mixRaw
              /\ mixResult.den = Peak(mixRaw)

C2_Witness ==
    /\ mixOp = "mixAudio"
    /\ mixPc = "returned"
    /\ Peak(mixRaw) > MixOne
    /\ mixResult.den = Peak(mixRaw)

\* C3: when the accumulated peak is at most 1.0 the normalisation pass
\* changes no sample: the result is the raw sum at the unchanged scale.
C3_QuietMixUntouched ==
    (mixPc = "returned" /\ Peak(mixRaw) <= MixOne) =>
        /\ mixResult.samples = mixRaw
        /\ mixResult.den = MixOne

C3_Witness ==
    /\ mixOp = "mixBuffers"
    /\ mixPc = "returned"
    /\ Len(mixRaw) >= 2
    /\ 0 < Peak(mixRaw)
    /\ Peak(mixRaw) < Unit
    /\ mixResult.den = Unit


\* C20: for a non-empty ambient buffer, mixAudio returns a buffer as long
\* as the primary one, whose sample i before normalisation is
\* primary[i] + ambientVolume * ambient[i mod len(ambient)], the ambient
\* buffer being shorter than, as long as, or longer than the primary.
\* (Sums are in steps of 1 / (Unit * the volume's denominator).)
C20_AmbientLoopsUnderPrimary ==
    (mixPc = "returned" /\ mixOp = "mixAudio" /\ Len(mixBuffersIn[2]) > 0) =>
        LET primary == mixBuffersIn[1]
            ambient == mixBuffersIn[2]
        IN  /\ Len(mixResult.samples) = Len(primary)
            /\ Len(mixRaw) = Len(primary)
            /\ \A i \in 0..(Len(primary) - 1) :
                  mixRaw[i + 1] =
                      primary[i + 1] * mixVolume[2]
                      + mixVolume[1] * ambient[(i % Len(ambient)) + 1]

C20_Witness ==
    /\ mixPc = "returned"
    /\ mixOp = "mixAudio"
    /\ Len(mixBuffersIn[2]) = 1
    /\ Len(mixBuffersIn[1]) = 2
    /\ mixBuffersIn[2][1] # 0
    /\ Len(mixRaw) = 2

--------------------------------------------------------------------------
(* Properties of the sample-based render (SpecRender) *)

Last(seq) == seq[Len(seq)]

\* The events whose fragment is missing when the loop checks it.
MissingEvents == {i \in 1..Len(rEvents) : rEvents[i].samplePath \notin rFiles}

\* The role of a fragment path.
RoleOf(path) == path[1]

\* C4: in every render pipeline peak normalisation is the last
\* transformation applied to the fully mixed signal before it is encoded, and
\* it is never applied to an individual source buffer.
C4_NormalizationIsLast ==
    rEncoded =>
        /\ Len(rStages) > 0
        /\ Last(rStages) = "normalize"
        /\ "normalize" \notin SourceFx(rVariant, rDraw)

\* C5: the render skips exactly the events whose fragment is missing and
\* continues with the remaining ones; a missing fragment never aborts the
\* render, and buffers and offsets have equal length.
C5_MissingFragmentsOnlySkipped ==
    /\ Len(rBuffers) = Len(rOffsets)
    /\ (rPc = "done" /\ Len(rEvents) > 0) =>
          /\ rSkipped = MissingEvents
          /\ SeqRange(rLoaded) = (1..Len(rEvents)) \ MissingEvents
          /\ rResponse = "success"

\* C6: a role with zero available fragments gets an empty event set and the
\* render raises no error, whichever roles have zero fragments.
C6_EmptyRolesRaiseNoError ==
    (rPc = "done" /\ rVariant \in {"layered2", "layered3"}
        /\ rFiles = Listed(rListing)) =>
          /\ \A role \in Roles :
                rListing[role] = 0 =>
                    \A i \in 1..Len(rEvents) : RoleOf(rEvents[i].samplePath) # role
          /\ rResponse = "success"

\* C9: mix is a barrier over the loads of a render: it is invoked at most
\* once, exactly once by the time the render has passed the loop, and from
\* its invocation on no load is pending and every event was either loaded
\* (its buffer appended) or skipped.
C9_MixIsBarrier ==
    /\ rMixCalls \in {0, 1}
    /\ rPc \in {"mixed", "mastered", "encoded", "written", "threw", "done"}
          <=> rMixCalls = 1
    /\ rMixCalls = 1 =>
          /\ rPending = {}
          /\ rIdx = Len(rEvents) + 1
          /\ SeqRange(rLoaded) \cup rSkipped = 1..Len(rEvents)
          /\ SeqRange(rLoaded) \cap rSkipped = {}
          /\ Len(rBuffers) = Len(rLoaded)
    /\ rPending # {} => rPc \in {"loading", "blending"}

C9_Witness ==
    /\ rMixCalls = 1
    /\ rPc = "mixed"
    /\ rSkipped # {}
    /\ Len(rLoaded) >= 2

--------------------------------------------------------------------------
(* Properties of play_ambient_retrowave_song (SpecAmbient) *)

\* The invocation found its selected nature sample absent.
NatureAbsent == aNatureSound \in NATURE_SAMPLES \ aSamples

\* C7 as claimed: when the selected nature sample is absent only the ambient
\* layer is skipped: the synth layer is still encoded and handed to playback
\* and the invocation does not end as a failed render.
C7_AbsentNatureRecovered ==
    (aPc = "done" /\ NatureAbsent) =>
        /\ aEncoded
        /\ aPlayers = 1
        /\ aResponse = "success"

\* C7 as amended: when the selected nature sample is absent the handler
\* throws "Sample not found" before any audio is loaded or mixed, and the
\* invocation ends as a failed render: the failure text, nothing encoded, no
\* final file and no player.
C7_AbsentNatureFailsRender ==
    NatureAbsent =>
        /\ aPc \in {"threw", "done"}
        /\ aError = "Sample not found"
        /\ aSynthAudio = <<>>
        /\ aNatureAudio = <<>>
        /\ ~aEncoded
        /\ ~aFinalWritten
        /\ aPlayers = 0
        /\ aPc = "done" => aResponse = "failure"

C7_Witness ==
    /\ aPc = "done"
    /\ NatureAbsent
    /\ aTimidityCode = 0
    /\ aSamples # {}
    /\ aResponse = "failure"

\* C8: when timidity closes with a nonzero exit code the invocation is a
\* failed render: the handler returns the failure text, no final mixed file
\* is written and no player is started.
C8_TimidityFailureSurfaced ==
    (aPc \notin {"start", "midi", "rendering"} /\ aTimidityCode # 0) =>
        /\ aPc \in {"threw", "done"}
        /\ aError = "Timidity failed"
        /\ ~aFinalWritten
        /\ aPlayers = 0
        /\ aPc = "done" => aResponse = "failure"

C8_Witness ==
    /\ aPc = "done"
    /\ aTimidityCode = 1
    /\ aSynthWav
    /\ aSamples = NATURE_SAMPLES
    /\ aResponse = "failure"

--------------------------------------------------------------------------
(* Properties of the chord resolver (SpecChords) *)

\* The note the rule of the unreduced index gives: pitch class
\* scale[index mod 7], octave + floor(index / 7).
CarriedNote(scale, octave, index) ==
    [pitch |-> scale[(index % 7) + 1], octave |-> octave + (index \div 7)]

\* C10: for every degree symbol i..vii in any case, every scale and base
\* octave, the resolver returns the notes of the unreduced indices base,
\* base+2, base+4: pitch class scale[index mod 7] and octave
\* octave + floor(index/7), so that the octave is raised exactly for the
\* members whose unreduced index exceeds 6.
C10_OctaveFollowsUnreducedIndex ==
    cPc = "returned" =>
        \A d \in 1..Len(cProgression) :
            LET base == degreeMap(toLowerCase(cProgression[d]))
            IN  base # Undefined =>
                    cChords[d] = << CarriedNote(cScale, cOctave, base),
                                    CarriedNote(cScale, cOctave, base + 2),
                                    CarriedNote(cScale, cOctave, base + 4) >>


\* Every symbol of the progression is in the degree table, in some case.
KnownProgression ==
    \A d \in 1..Len(cProgression) :
        degreeMap(toLowerCase(cProgression[d])) # Undefined

\* C11: every chord resolved from a progression of degree symbols has
\* exactly 3 notes, each note's pitch class is a member of the input scale,
\* and the scale entries used are those at base, base+2 and base+4 reduced
\* modulo 7.
C11_TriadWithinScale ==
    (cPc = "returned" /\ KnownProgression) =>
        /\ Len(cChords) = Len(cProgression)
        /\ \A d \in 1..Len(cProgression) :
              LET base == degreeMap(toLowerCase(cProgression[d]))
              IN  /\ Len(cChords[d]) = 3
                  /\ \A j \in 1..3 :
                        /\ \E n \in 1..Len(cScale) :
                              cChords[d][j].pitch = cScale[n]
                        /\ cChords[d][j].pitch =
                              cScale[((base + 2 * (j - 1)) % 7) + 1]

C11_Witness ==
    /\ cPc = "returned"
    /\ cVariant = "getChords"
    /\ cProgression \in CHORD_PROGRESSIONS
    /\ \E d \in 1..Len(cProgression) :
          degreeMap(toLowerCase(cProgression[d])) + 4 > 6
    /\ Len(cChords) = Len(cProgression)

\* C12: when a symbol of the progression is not in the degree table the
\* resolver fails with an error and returns no chord for it.
C12_UnknownSymbolFails ==
    (cPc \in {"returned", "threw"} /\ ~KnownProgression) =>
        /\ cPc = "threw"
        /\ cChords = <<>>


--------------------------------------------------------------------------
(* Properties of the choice of progressions (SpecProgressions) *)

\* C13: for every tone argument and every sequence of random draws, the
\* chorus progression chosen for a song is not identical to the verse
\* progression (every catalog has at least two entries).
C13_ChorusDiffersFromVerse ==
    pPc = "chosen" =>
        /\ pChorus # pVerse
        /\ ProgressionOf(pChorus) # ProgressionOf(pVerse)


--------------------------------------------------------------------------
(* Properties of the drum generator (SpecDrums) *)

\* The positions in the drum track of the invocations for measure m of
\* section i.
InvocationsFor(i, m) ==
    {n \in 1..Len(dTrack) : dTrack[n].section = i /\ dTrack[n].measure = m}

\* Section i is followed by a different section that is not the last one.
TransitionAfter(i) ==
    /\ i + 1 < Len(dStructure)
    /\ dStructure[i + 1].name # dStructure[i].name

\* The number of measures of the structure.
TotalMeasures ==
    LET RECURSIVE Sum(_)
        Sum(k) == IF k = 0 THEN 0 ELSE dStructure[k].length + Sum(k - 1)
    IN  Sum(Len(dStructure))

\* C17: the fill pattern is played on the last measure of a section if and
\* only if the section is followed by a different, non-terminal section; in
\* that measure the normal pattern is not played, in every other measure a
\* pattern other than the fill is played, and every measure of every
\* section gets exactly one pattern invocation.
C17_FillOnlyOnTransitions ==
    dPc = "returned" =>
        /\ Len(dTrack) = TotalMeasures
        /\ \A i \in 1..Len(dStructure) :
              \A m \in 0..(dStructure[i].length - 1) :
                 /\ Cardinality(InvocationsFor(i, m)) = 1
                 /\ \A n \in InvocationsFor(i, m) :
                       (dTrack[n].pattern = "fill")
                          <=> (m = dStructure[i].length - 1 /\ TransitionAfter(i))

C17_Witness ==
    /\ dPc = "returned"
    /\ dStructure \in SeqRange(TemplatesMidi)
    /\ \E n \in 1..Len(dTrack) : dTrack[n].pattern = "fill"
    /\ Last(dTrack).pattern = "outro"

\* The section name has a pattern of its own in the variant called.
HasOwnPattern(name) ==
    IF dVariant = "index"
    THEN name \in DRUM_PATTERNS
    ELSE name \in DRUM_PATTERNS7 \cup {"verse", "chorus"}

\* The designated default pattern of the variant called.
DefaultPattern == IF dVariant = "index" THEN "verse" ELSE "verse_A"

\* C18: for a section name that has no drum pattern of its own, the
\* generator plays the default (verse) pattern on the section's measures
\* that are not fills, and no invocation is of an absent pattern.
C18_DefaultPatternForUnknownSection ==
    dPc = "returned" =>
        /\ \A n \in 1..Len(dTrack) : dTrack[n].pattern # "undefined"
        /\ \A n \in 1..Len(dTrack) :
              (/\ ~HasOwnPattern(dStructure[dTrack[n].section].name)
               /\ dTrack[n].pattern # "fill")
                 => dTrack[n].pattern = DefaultPattern

C18_Witness ==
    /\ dPc = "returned"
    /\ \E n \in 1..Len(dTrack) :
          /\ ~HasOwnPattern(dStructure[dTrack[n].section].name)
          /\ dTrack[n].pattern = DefaultPattern


--------------------------------------------------------------------------
(* Properties of the composers (SpecCompose) *)

\* The units of the whole structure.
TotalUnits == OffsetOf(tStructure, Len(tStructure) + 1)

\* Time t lies inside section k of the structure.
InSection(t, k) ==
    /\ t >= OffsetOf(tStructure, k) * TicksPerUnit(tVariant)
    /\ t < OffsetOf(tStructure, k + 1) * TicksPerUnit(tVariant)

\* C14: the composer of index.ts produces exactly 4 role tracks (drum,
\* bass, pad, arp), and every arp event lies, in absolute song time, inside
\* the units of a chorus section, none at a time outside a chorus.
C14_ArpOnlyInChorus ==
    (tPc = "composed" /\ tVariant = "index") =>
        /\ Len(tTracks) = 4
        /\ {tTracks[j].role : j \in 1..Len(tTracks)} = {"drum", "bass", "pad", "arp"}
        /\ \A j \in 1..Len(tTracks) :
              tTracks[j].role = "arp" =>
                 \A n \in 1..Len(tTracks[j].events) :
                    \E k \in 1..Len(tStructure) :
                       /\ tStructure[k].name = "chorus"
                       /\ InSection(tTracks[j].events[n].time, k)

\* C15: every event emitted for unit r of section k has its time in
\* [globalOffset_k + r, globalOffset_k + r + 1), globalOffset_k the sum of
\* the lengths of the sections before k, so that the events of section k
\* lie inside the section and none at or beyond the total duration.
C15_EventsAtGlobalOffset ==
    (tPc = "composed" /\ tVariant \in {"index_3", "index_4"}) =>
        \A j \in 1..Len(tTracks) :
           \A n \in 1..Len(tTracks[j].events) :
              LET e     == tTracks[j].events[n]
                  start == (OffsetOf(tStructure, e.section) + e.unit)
                              * TicksPerUnit(tVariant)
              IN  /\ e.unit \in 0..(tStructure[e.section].length - 1)
                  /\ e.time >= start
                  /\ e.time < start + TicksPerUnit(tVariant)
                  /\ InSection(e.time, e.section)
                  /\ e.time < TotalUnits * TicksPerUnit(tVariant)

\* C16: the composer returns exactly one track per role whatever the number
\* of sections: no two tracks have the same role or the same name, and the
\* events of a track follow the order of the sections.
C16_OneTrackPerRole ==
    tPc = "composed" =>
        /\ Len(tTracks) = Cardinality({tTracks[j].role : j \in 1..Len(tTracks)})
        /\ \A i, j \in 1..Len(tTracks) :
              i # j => tTracks[i].name # tTracks[j].name
        /\ \A j \in 1..Len(tTracks) :
              \A n \in 1..(Len(tTracks[j].events) - 1) :
                 tTracks[j].events[n].section <= tTracks[j].events[n + 1].section


--------------------------------------------------------------------------
(* Properties of loadSample (SpecLoad) *)

\* q is the whole part of a / b, for b > 0.
IsFloorOf(q, a, b) == q * b <= a /\ a < (q + 1) * b

\* C19: loadSample returns exactly floor(inputLength * targetRate /
\* inputRate) samples, output sample i is the input sample at index
\* floor(i * inputRate / targetRate), and every index read is less than the
\* input length.
C19_NearestNeighbourResample ==
    lsPc = "returned" =>
        /\ IsFloorOf(Len(lsOut), Len(lsIn) * lsTargetRate, lsRate)
        /\ Len(lsReads) = Len(lsOut)
        /\ \A i \in 0..(Len(lsOut) - 1) :
              /\ IsFloorOf(lsReads[i + 1], i * lsRate, lsTargetRate)
              /\ lsReads[i + 1] < Len(lsIn)
              /\ lsOut[i + 1] = lsIn[lsReads[i + 1] + 1]

C19_Witness ==
    /\ lsPc = "returned"
    /\ lsRate = 3
    /\ lsTargetRate = 2
    /\ Len(lsIn) = 4
    /\ Len(lsOut) = 2
    /\ lsOut = <<lsIn[1], lsIn[2]>>


--------------------------------------------------------------------------
(* Properties of the buffer transforms (SpecFx) *)

\* The calls of op made so far.
CallsOf(op) == {c \in 1..Len(fxCalls) : fxCalls[c].op = op}

\* The cell a call was handed as its k-th argument, as it was at the call.
ArgOf(c, k) ==
    IF fxCalls[c].args[k] <= Len(fxHeap0) THEN fxHeap0[fxCalls[c].args[k]]
    ELSE fxCalls[c - 1].out

\* Sample k (1-based) of a cell, 0 outside it.
SampleOrZero(cell, k) ==
    IF 1 <= k /\ k <= Len(cell.samples) THEN cell.samples[k] ELSE 0

\* C21: addDelay returns a buffer of length inputLength + delaySamples in
\* which sample k is input[k] (for k < inputLength) plus feedback *
\* input[k - delaySamples] (for delaySamples <= k), for every
\* delaySamples >= 0, overlapping contributions and delaySamples = 0
\* included.
C21_DelayAddsFeedbackCopy ==
    \A c \in CallsOf("addDelay") :
        LET in == ArgOf(c, 1)
            out == fxCalls[c].out
            delaySamples == fxCalls[c].param[1]
            num == fxCalls[c].param[2]
            den == fxCalls[c].param[3]
        IN  /\ Len(out.samples) = Len(in.samples) + delaySamples
            /\ \A k \in 1..Len(out.samples) :
                  out.samples[k] * in.den * den =
                      out.den * (den * SampleOrZero(in, k)
                                 + num * SampleOrZero(in, k - delaySamples))

C21_Witness ==
    \E c \in CallsOf("addDelay") :
        /\ fxCalls[c].param[1] = 1
        /\ Len(ArgOf(c, 1).samples) = 3
        /\ fxCalls[c].param[2] = 3
        /\ fxCalls[c].out.samples = <<10, 23, 36, 9>>


\* C22: blendBuffers returns a buffer as long as the longer of a and b with
\* sample i = a[i] * (1 - mix) + b[i] * mix, a sample past the end of the
\* shorter buffer counting as 0; so a buffer blended with itself at 0.5 is
\* that buffer again.
C22_BlendIsWeightedSum ==
    \A c \in CallsOf("blendBuffers") :
        LET a == ArgOf(c, 1)
            b == ArgOf(c, 2)
            out == fxCalls[c].out
            num == fxCalls[c].param[1]
            den == fxCalls[c].param[2]
        IN  /\ Len(out.samples) = Max2(Len(a.samples), Len(b.samples))
            /\ \A i \in 1..Len(out.samples) :
                  out.samples[i] * a.den * b.den * den =
                      out.den * (SampleOrZero(a, i) * b.den * (den - num)
                                 + SampleOrZero(b, i) * a.den * num)
            /\ (a = b /\ num = 1 /\ den = 2) =>
                  /\ Len(out.samples) = Len(a.samples)
                  /\ \A i \in 1..Len(a.samples) :
                        out.samples[i] * a.den = out.den * a.samples[i]

C22_Witness ==
    /\ Len(fxCalls) = 2
    /\ fxCalls[1].op = "blendBuffers"
    /\ Len(ArgOf(1, 1).samples) = 3
    /\ Len(ArgOf(1, 2).samples) = 1
    /\ fxCalls[1].param = <<1, 4>>
    /\ Len(fxCalls[1].out.samples) = 3
    /\ fxCalls[2].op = "blendBuffers"
    /\ fxCalls[2].args = <<3, 3>>
    /\ fxCalls[2].param = <<1, 2>>
    /\ Len(fxCalls[2].out.samples) = 3

\* C23: pitchShift by 0 semitones returns a buffer of the same length and
\* content; in general the output has floor(inputLength / ratio) samples
\* with ratio = 2^(semitones / 12), half the length at +12 and double at
\* -12, and every index read is inside the input.
C23_PitchShiftResamplesByRatio ==
    \A c \in CallsOf("pitchShift") :
        LET in == ArgOf(c, 1)
            out == fxCalls[c].out
            reads == fxCalls[c].reads
            semitones == fxCalls[c].param[1]
        IN  /\ semitones = 0 => out = in
            /\ semitones = 12 => Len(out.samples) = Len(in.samples) \div 2
            /\ semitones = -12 => Len(out.samples) = 2 * Len(in.samples)
            /\ IsFloorOf(Len(out.samples), 1000 * Len(in.samples), ratio(semitones))
            /\ Len(reads) = Len(out.samples)
            /\ \A i \in 1..Len(reads) :
                  /\ 0 <= reads[i]
                  /\ reads[i] < Len(in.samples)
                  /\ out.samples[i] = in.samples[reads[i] + 1]
            /\ out.den = in.den

C23_Witness ==
    /\ Len(fxCalls) = 2
    /\ fxCalls[1].op = "pitchShift"
    /\ fxCalls[1].param = <<5>>
    /\ ArgOf(1, 1).samples = <<1, 2, 3, 4>>
    /\ fxCalls[1].out.samples = <<1, 2>>
    /\ fxCalls[2].op = "pitchShift"
    /\ fxCalls[2].param = <<0>>
    /\ fxCalls[2].out.samples = <<1, 2>>

\* C24: every buffer transform (pitchShift, reverseBuffer, addDelay,
\* distortBuffer, blendBuffers, mixBuffers, mixAudio) leaves the buffers it
\* is handed as they were and returns a buffer allocated by the call, which
\* no later call changes; reverseBuffer keeps the length and reverses the
\* order of the samples, so reversing twice gives the first buffer again.
C24_TransformsLeaveInputsAlone ==
    /\ \A a \in 1..Len(fxHeap0) : fxHeap[a] = fxHeap0[a]
    /\ \A c \in 1..Len(fxCalls) :
          /\ fxCalls[c].ret \notin 1..(Len(fxHeap0) + c - 1)
          /\ fxCalls[c].ret \in DOMAIN fxHeap
          /\ fxHeap[fxCalls[c].ret] = fxCalls[c].out
    /\ \A c \in CallsOf("reverseBuffer") :
          LET in == ArgOf(c, 1)
              out == fxCalls[c].out
          IN  /\ Len(out.samples) = Len(in.samples)
              /\ out.den = in.den
              /\ \A k \in 1..Len(in.samples) :
                    out.samples[k] = in.samples[Len(in.samples) + 1 - k]
    /\ (CallsOf("reverseBuffer") = {1, 2}) => fxCalls[2].out = ArgOf(1, 1)

C24_Witness ==
    /\ CallsOf("reverseBuffer") = {1, 2}
    /\ fxCalls[1].args = <<1>>
    /\ fxHeap0[1].samples = <<1, 2, 3>>
    /\ fxHeap[1].samples = <<1, 2, 3>>
    /\ fxHeap[3].samples = <<3, 2, 1>>
    /\ fxHeap[4].samples = <<1, 2, 3>>


--------------------------------------------------------------------------
(* Properties of generateSongMIDI (SpecSong) *)

\* The values of Math.random() a run has taken, in order.
Consumed(run) == [n \in 1..gSong[run].used |-> Draw(gStream[run], n)]

\* C25: two runs of the song generator that take the same sequence of
\* random draws choose the same structure template, scale, verse and chorus
\* progressions and instruments and emit the same events in every track;
\* and the structure a run holds is always one of the catalog's templates
\* as the catalog has it.
C25_SameDrawsSameSong ==
    /\ \A run \in 1..2 :
          (gRun > 0 /\ gSong[run].structure # <<>>) =>
              gSong[run].structure \in SeqRange(TemplatesMidi)
    /\ (gRun = 3 /\ Consumed(1) = Consumed(2)) =>
          /\ gSong[1].structure = gSong[2].structure
          /\ gSong[1].scale = gSong[2].scale
          /\ gSong[1].verseProgression = gSong[2].verseProgression
          /\ gSong[1].chorusProgression = gSong[2].chorusProgression
          /\ gSong[1].leadSynth = gSong[2].leadSynth
          /\ gSong[1].bassSynth = gSong[2].bassSynth
          /\ gSong[1].padSynth = gSong[2].padSynth
          /\ gSong[1].tracks = gSong[2].tracks

C25_Witness ==
    /\ gRun = 3
    /\ Consumed(1) = Consumed(2)
    /\ gStream[1] = <<20, 70>>
    /\ gSong[1].midiFile # gSong[2].midiFile
    /\ gSong[2].structure = TemplatesMidi[1]
    /\ gSong[2].used = 23
    /\ gSong[2].leadSynth = 80
    /\ Len(gSong[2].tracks[4].notes) = 256
    /\ gSong[2].tracks = gSong[1].tracks


--------------------------------------------------------------------------
(* Properties of play_ambient_retrowave_song under fair scheduling        *)
(* (SpecAmbientLive)                                                       *)

\* C26: every tool invocation eventually returns a response, the success
\* text or the failure text: no single external step that is slow or never
\* completes (the renderer process, a load) stalls it for ever.
C26_InvocationEventuallyResponds == <>(aResponse \in {"success", "failure"})


--------------------------------------------------------------------------
(* Properties of the tracked player (SpecPlay) *)

\* The players whose process runs.
AlivePlayers == {p \in DOMAIN wPlayers : wPlayers[p] = "alive"}

\* C27: with the tracked handle, over any calls of playWav and 'exit'
\* events, while the player started last is alive currentPlayer refers to
\* it (the exit of an older, killed player does not clear it), and at most
\* one player the server started is alive.
C27_HandleTracksNewestPlayer ==
    wVariant = "handle" =>
        /\ (wPlayers # <<>> /\ wPlayers[Len(wPlayers)] = "alive") =>
              wCurrent = Len(wPlayers)
        /\ Cardinality(AlivePlayers) <= 1

\* C28: with the tracked PID, over any interleaving of overlapping
\* invocations, currentPlayerPid is null or the PID of the player spawned
\* last, which has not exited, and at most one spawned player is alive
\* and not killed.
C28_PidTracksNewestPlayer ==
    wVariant = "pid" =>
        /\ wCurrent # 0 =>
              (wCurrent = Len(wPlayers) /\ wPlayers[wCurrent] # "gone")
        /\ Cardinality(AlivePlayers) <= 1


--------------------------------------------------------------------------
(* Properties of play_retro_music (SpecRetro) *)

\* C29: an invocation that reports success has started exactly one
\* playback process for the rendered file, and a player is started only
\* once the file is written; an invocation that reports failure has
\* started none.
C29_OnePlayerPerSuccess ==
    /\ qPlayers # <<>> => qWritten
    /\ qResponse = "success" => Len(qPlayers) = 1
    /\ qResponse = "failure" => Len(qPlayers) = 0


--------------------------------------------------------------------------
(* Properties of synthesize_music and play_music (SpecTools) *)

\* C30: over any sequence and interleaving of synthesize_music and
\* play_music, play_music starts a player only if a synthesis has completed
\* before, and what it plays is the track of the synthesis that completed
\* last; before any synthesis has completed it returns the no-track text
\* and starts no player.
C30_PlaysLatestCompletedTrack ==
    \A k \in DOMAIN uPlays :
        /\ uPlays[k].player =>
              (uPlays[k].lastDone # 0 /\ uPlays[k].track = uPlays[k].lastDone)
        /\ uPlays[k].lastDone = 0 =>
              (~uPlays[k].player /\ uPlays[k].response = "no track")

\* The same property of the variant of part_002 alone.
C30_Part002PlaysLatest == uVariant = "part_002" => C30_PlaysLatestCompletedTrack

==========================================================================
